---- MODULE Spec2Model ----
(***************************************************************************)
(* Generic Player: the playback state coordinator (generic_player.py) and  *)
(* the MPRIS bridge (generic_player_mpris.py) as a state machine.          *)
(*                                                                         *)
(* All handlers run on the single Qt event-loop thread, so every handler   *)
(* is one atomic action.  Handlers call each other (next_song calls        *)
(* play_song or stop_song, ...), so each handler is an operator from a     *)
(* state record to a state record; an action applies one handler to the    *)
(* record of the current variables and commits the result.                 *)
(*                                                                         *)
(* The media backend (QMediaPlayer) is an external collaborator: commands  *)
(* change the state it reports on a synchronous query at once, and the     *)
(* notifications it emits are queued and delivered later, in emission      *)
(* order.  Times are milliseconds of time.monotonic().                     *)
(***************************************************************************)
EXTENDS Integers, Sequences, FiniteSets, TLC

\* ---------------------------------------------------------------- bounds
MaxPlaylist == 2      \* longest playlist built by add_songs / add_custom_stream
MaxNotif == 2         \* backend notifications emitted and not yet delivered
MaxSwitchNotif == 3   \* the same, after a track switch that found some pending
MaxLongPlaylist == 3  \* longest playlist once a station follows the files
MaxTimers == 2        \* pending QTimer.singleShot callbacks
MaxTime == 450        \* the clock stops advancing this long after start-up
TickMs == 150         \* granularity of the clock
StartTime == 1000     \* time.monotonic() when the window is constructed
PosStep == 1000       \* playback position advance between two positionChanged

\* ------------------------------------------------------ program constants
ToggleWindowMs == 220        \* _toggle_guard_active(window_ms=220)
ForceTimeoutMs == 650        \* _mpris_force_status_immediate(timeout_ms=650)
BridgeForceTimeoutMs == 450  \* force_playback_status(timeout_ms=450)
EndWindowMs == 1000          \* update_slider: _duration_ms - 1000
AdvanceDelayMs == 50         \* singleShot(50, _advance_after_end)
NotifyDelayMs == 140         \* singleShot(140, _mpris_notify(playback=True))
NotifyDelayStoppedMs == 200  \* singleShot(200, ...) after play_song
ResyncDelayMs == 120         \* singleShot(120, _mpris_force_actual_status)
MovedRecentlyMs == 700       \* _is_effectively_playing: moved in the last 0.7 s
InitialVolume == 70          \* volume_slider.setValue(70), change_volume(70)
LastPosMovedAt == 0          \* getattr(self, "_last_pos_moved_at", 0.0): never assigned,
                             \* update_slider raises on the unset _last_pos_ms first

None == "None"

\* ------------------------------------------------------------ environment
\* Files the user can pick in the file dialog, and the stream URLs typed in.
Files == {"a.mp3", "b.mp4"}
Streams == {"http://s"}

SUPPORTED_VIDEO_EXTENSIONS == {"b.mp4"}
SUPPORTED_AUDIO_EXTENSIONS == {"a.mp3"}

\* Where the user leaves the volume slider, and the values (in thousandths)
\* an MPRIS client writes to the Volume property: every multiple of 0.005
\* from -VolumeMargin to 1 + VolumeMargin, or a few of them.
VolumeMargin == 100
MaxJobId == 8         \* lyrics jobs: the counter stops there
SliderStops == {0, 35, 100}
VolumeInputs == {5 * k : k \in (-(VolumeMargin \div 5))..((1000 + VolumeMargin) \div 5)}
VolumeStops == {-VolumeMargin, 555, 1000 + VolumeMargin}

\* Statuses a caller hands to force_playback_status: the three names, and
\* strings that are not one of them.
StatusInputs == {"Playing", "Paused", "Stopped", "playing", "Buffering", "None"}

\* The name typed in for a custom stream.
StreamName == "Station"

\* No playlist file has been written.
NoFile == [written |-> FALSE, doc |-> <<>>, src |-> <<>>]

\* Files picked or dropped that the player may not support, and the entries
\* found in playlist files written by other versions or by hand: without
\* derived fields, with some of them, with all of them, of a kind the player
\* does not know, and without a type.
AnyFiles == Files \cup {"c.txt"}

BareEntry == [path |-> "a.mp3", type |-> "audio"]
PartialEntry == [path |-> "Ann - Song.mp3", type |-> "audio", display |-> <<"old">>]
FullEntry ==
    [path |-> "b.mp4", type |-> "video", artist |-> "", title |-> "b", display |-> <<"b">>]
ImageEntry == [path |-> "c.txt", type |-> "image"]
UntypedEntry == [path |-> "a.mp3"]

\* The playlist files of that sort that the user can pick.
LegacyPlaylists ==
    { <<>>, <<BareEntry>>, <<BareEntry, PartialEntry>>, <<FullEntry, BareEntry>>,
      <<ImageEntry>>, <<PartialEntry, ImageEntry>>, <<UntypedEntry>>,
      <<FullEntry, UntypedEntry>> }

\* An entry with every field present whose path is null and whose display
\* text is empty, and the files the user can pick that do not load: one that
\* cannot be read or parsed, one whose JSON is an object instead of a list,
\* and lists that hold such an entry.
NullPathEntry ==
    [path |-> None, type |-> "audio", artist |-> "", title |-> "", display |-> <<>>]

DamagedFiles ==
    { [kind |-> "unreadable", list |-> <<>>],
      [kind |-> "object", list |-> <<>>],
      [kind |-> "list", list |-> <<NullPathEntry>>],
      [kind |-> "list", list |-> <<BareEntry, NullPathEntry>>],
      [kind |-> "list", list |-> <<UntypedEntry, NullPathEntry>>] }

\* What player.errorString() returns when the error signal is handled.
ErrorStrings == {"", "Could not decode"}

\* Duration the backend reports for a source once it is loaded (0: unknown).
Duration(path) ==
    CASE path = "a.mp3" -> 2000
      [] path = "b.mp4" -> 3000
      [] OTHER -> 0

Min(a, b) == IF a < b THEN a ELSE b
Max(a, b) == IF a > b THEN a ELSE b

RemoveAt(seq, i) == [j \in 1..(Len(seq) - 1) |-> IF j < i THEN seq[j] ELSE seq[j + 1]]

VARIABLES
    \* MainWindow
    playlist,              \* self.playlist: sequence of [path, type]
    current_song_index,    \* self.current_song_index, 0-based, -1: none
    shuffle_mode,
    repeat_mode,
    duration_ms,           \* self._duration_ms
    end_guard,             \* self._end_guard
    toggle_guard_until,    \* self._toggle_guard_until
    last_playing,          \* self._last_playing
    mpris_last_playing,    \* self._mpris_last_playing
    status_bar,            \* message shown by self.status_bar
    play_button,           \* text of self.play_button
    stop_button,           \* self.stop_button.isEnabled()
    volume_slider,         \* self.volume_slider.value(), 0..100
    audio_volume,          \* self.audio_out.volume(), in thousandths
    playlist_file,         \* the playlist file on disk: what save_playlist wrote
    lyrics,                \* self.lyrics (GenericPlayerLyrics) and its workers
    timers,                \* pending QTimer.singleShot callbacks
    \* GenericPlayerMPRIS
    mpris,                 \* self.mpris is not None
    forced_playback_status,
    forced_until,
    published,             \* PlaybackStatus of the last PropertiesChanged signal
    \* QMediaPlayer
    p_state,               \* playbackState()
    p_source,              \* source()
    p_pos,                 \* position()
    p_status,              \* mediaStatus()
    notif,                 \* signals emitted and not yet delivered
    \* environment
    now,                   \* time.monotonic(), in ms
    missing,               \* files that no longer exist on disk
    \* history
    last,                  \* what the last step did
    advanced,              \* boundaries (by age) whose advance has run
    req_at,                \* time play_pause_song was last entered, -1: never
    acc_at,                \* time a toggle last passed the guard, -1: never
    acc_from,              \* backend state when it passed (None: no forced status since)
    canonical              \* state carried by the last delivered state notification

vars == <<playlist, current_song_index, shuffle_mode, repeat_mode, duration_ms,
          end_guard, toggle_guard_until, last_playing, mpris_last_playing,
          status_bar, play_button, stop_button, volume_slider, audio_volume,
          playlist_file, lyrics, timers, mpris,
          forced_playback_status, forced_until, published, p_state, p_source,
          p_pos, p_status, notif, now, missing, last, advanced, req_at, acc_at,
          acc_from, canonical>>

\* The record of the current state, on which the handlers operate.
St == [playlist |-> playlist, current_song_index |-> current_song_index,
       shuffle_mode |-> shuffle_mode, repeat_mode |-> repeat_mode,
       duration_ms |-> duration_ms, end_guard |-> end_guard,
       toggle_guard_until |-> toggle_guard_until, last_playing |-> last_playing,
       mpris_last_playing |-> mpris_last_playing, status_bar |-> status_bar,
       play_button |-> play_button, stop_button |-> stop_button,
       volume_slider |-> volume_slider, audio_volume |-> audio_volume,
       playlist_file |-> playlist_file, lyrics |-> lyrics,
       timers |-> timers,
       mpris |-> mpris, forced_playback_status |-> forced_playback_status,
       forced_until |-> forced_until, published |-> published, p_state |-> p_state,
       p_source |-> p_source, p_pos |-> p_pos, p_status |-> p_status,
       notif |-> notif, now |-> now, missing |-> missing, last |-> last,
       advanced |-> advanced, req_at |-> req_at, acc_at |-> acc_at,
       acc_from |-> acc_from, canonical |-> canonical]

\* Commit the state a handler returns.  A step that would overflow the
\* notification queue or the timer list is outside the bounds of the model.
CommitWithin(r, max_notif) ==
    /\ Len(r.notif) <= max_notif
    /\ Len(r.timers) <= MaxTimers
    /\ playlist' = r.playlist
    /\ current_song_index' = r.current_song_index
    /\ shuffle_mode' = r.shuffle_mode
    /\ repeat_mode' = r.repeat_mode
    /\ duration_ms' = r.duration_ms
    /\ end_guard' = r.end_guard
    /\ toggle_guard_until' = r.toggle_guard_until
    /\ last_playing' = r.last_playing
    /\ mpris_last_playing' = r.mpris_last_playing
    /\ status_bar' = r.status_bar
    /\ play_button' = r.play_button
    /\ stop_button' = r.stop_button
    /\ volume_slider' = r.volume_slider
    /\ audio_volume' = r.audio_volume
    /\ playlist_file' = r.playlist_file
    /\ r.lyrics.job_id <= MaxJobId
    /\ lyrics' = r.lyrics
    /\ timers' = r.timers
    /\ mpris' = r.mpris
    /\ forced_playback_status' = r.forced_playback_status
    /\ forced_until' = r.forced_until
    /\ published' = r.published
    /\ p_state' = r.p_state
    /\ p_source' = r.p_source
    /\ p_pos' = r.p_pos
    /\ p_status' = r.p_status
    /\ notif' = r.notif
    /\ now' = r.now
    /\ missing' = r.missing
    /\ last' = r.last
    /\ advanced' = r.advanced
    /\ req_at' = r.req_at
    /\ acc_at' = r.acc_at
    /\ acc_from' = r.acc_from
    /\ canonical' = r.canonical

Commit(r) == CommitWithin(r, MaxNotif)

\* ---------------------------------------------------------------- history
\* last.op      the handler the step entered ("env": the clock, the backend or
\*              the disk moved on their own)
\* last.cmds    the backend commands it issued, in order
\* last.pushed  the statuses it forced on the bridge, in order
\* last.box     the message box it showed ("" if none)
\* last.adv     "none", or how _advance_after_end ran: "first" / "dup" for the
\*              first / a repeated advance of one track boundary, "old" when
\*              the boundary is too old for the history to tell
\* last.eff     "-" if the step did not reach play_pause_song, "ignored" if the
\*              toggle guard made it return, else the effective state it acted on
\* last.idx0    current_song_index when a next / previous / toggle handler
\*              was entered (-1 for the other steps)
\* last.val     the value the step wrote to the Volume property (0 for the
\*              other steps)
\* last.arg     the status the step passed to force_playback_status from
\*              outside the window, or which file load_playlist was given
\*              ("saved": the one save_playlist wrote, "legacy": another one);
\*              "" for the other steps
\* last.doc     the content of the file load_playlist was given
\* last.ready   "applied" / "discarded" when the step handled a lyrics
\*              worker's result ("" for the other steps)
\* last.sig     the bridge properties it sent a PropertiesChanged signal for
\* last.meta    the Metadata values it published, in order, each with the
\*              source the backend had loaded at that moment
NoLast(op) ==
    [op |-> op, cmds |-> <<>>, pushed |-> <<>>, box |-> "", adv |-> "none",
     eff |-> "-", idx0 |-> -1, val |-> 0, arg |-> "", doc |-> <<>>,
     ready |-> "", sig |-> {}, meta |-> <<>>, ev |-> <<>>, due |-> -1]

Begin(s, op) == [s EXCEPT !.last = NoLast(op)]

\* A handler that reads current_song_index enters.
BeginNav(s, op) == [s EXCEPT !.last = [NoLast(op) EXCEPT !.idx0 = s.current_song_index]]

Cmd(c, arg) == [c |-> c, arg |-> arg]

Issue(s, c) == [s EXCEPT !.last.cmds = Append(@, c), !.last.ev = Append(@, "cmd")]

\* ------------------------------------------------ the backend (QMediaPlayer)
StateN(st) == [k |-> "state", sv |-> st, nv |-> 0, age |-> 0]
StatusN(name) == [k |-> "status", sv |-> name, nv |-> 0, age |-> 0]
PosN(p) == [k |-> "pos", sv |-> "", nv |-> p, age |-> 0]
DurN(d) == [k |-> "dur", sv |-> "", nv |-> d, age |-> 0]
ErrorN(err) == [k |-> "error", sv |-> err, nv |-> 0, age |-> 0]

Emit(s, n) == [s EXCEPT !.notif = Append(@, n)]

Older(a) == Min(a + 1, 2)

\* A new play-through of a source begins: the position and end-of-media
\* signals emitted or scheduled so far belong to an earlier track boundary.
\* (Only those signals can start an advance, only their age is tracked.)
EndSignal(n) == n.k = "pos" \/ (n.k = "status" /\ n.sv = "EndOfMedia")

NewPlay(s) ==
    [s EXCEPT !.notif = [i \in 1..Len(@) |->
                            IF EndSignal(@[i])
                            THEN [@[i] EXCEPT !.age = Older(@)] ELSE @[i]],
              !.timers = [i \in 1..Len(@) |->
                             IF @[i].k = "advance"
                             THEN [@[i] EXCEPT !.age = Older(@)] ELSE @[i]],
              !.advanced = IF 0 \in @ THEN {1} ELSE {}]

SetState(s, st) ==
    IF s.p_state # st THEN Emit([s EXCEPT !.p_state = st], StateN(st)) ELSE s

\* setSource / setMedia: playback of the old source stops, the new one loads.
player_setSource(s, path) ==
    LET s1 == SetState(Issue(s, Cmd("setSource", path)), "Stopped")
    IN NewPlay([s1 EXCEPT !.p_source = path, !.p_pos = 0,
                          !.p_status = "LoadingMedia"])

\* play(): nothing without a source; after the end of the media, from the start.
player_play(s) ==
    LET s1 == Issue(s, Cmd("play", ""))
        s2 == IF s1.p_status = "EndOfMedia"
              THEN NewPlay([s1 EXCEPT !.p_pos = 0, !.p_status = "LoadedMedia"])
              ELSE s1
    IN IF s1.p_source = None THEN s1 ELSE SetState(s2, "Playing")

player_pause(s) ==
    LET s1 == Issue(s, Cmd("pause", ""))
    IN IF s1.p_source = None THEN s1 ELSE SetState(s1, "Paused")

player_stop(s) ==
    LET s1 == Issue(s, Cmd("stop", ""))
    IN [SetState(s1, "Stopped") EXCEPT !.p_pos = 0]

player_setPosition(s, p) ==
    LET s1 == Issue(s, Cmd("setPosition", ""))
        s2 == [s1 EXCEPT !.p_pos = p,
                         !.p_status = IF @ = "EndOfMedia" THEN "LoadedMedia" ELSE @]
    IN IF s1.p_source = None THEN s1 ELSE NewPlay(s2)

\* playbackState() mapped to the three MPRIS names.
BackendStatus(s) ==
    CASE s.p_state = "Playing" -> "Playing"
      [] s.p_state = "Paused" -> "Paused"
      [] OTHER -> "Stopped"

\* --------------------------------------------- the bridge (GenericPlayerMPRIS)
Statuses == {"Playing", "Paused", "Stopped"}

\* Variant of PlaybackStatus without the expiry test: a forced status is
\* reported for as long as it is stored.
PlaybackStatus_NoExpiry(s) ==
    IF s.forced_playback_status # None
    THEN s.forced_playback_status
    ELSE BackendStatus(s)

\* The PlaybackStatus property: the forced status until it expires, then the
\* backend's state.
PlaybackStatus(s) ==
    IF s.forced_playback_status # None /\ s.now < s.forced_until
    THEN s.forced_playback_status
    ELSE BackendStatus(s)

\* notify_playback: PropertiesChanged carrying the PlaybackStatus property.
notify_playback(s) ==
    [s EXCEPT !.published = PlaybackStatus(s),
              !.last.sig = @ \cup {"PlaybackStatus"},
              !.last.ev = Append(@, "publish")]

\* The Metadata property: empty without a valid current_song_index, else the
\* track id, title and URL of playlist[current_song_index] (the title falls
\* back to the base name of the path, which stands for both here) and, when it
\* is positive, the app's _duration_ms as the length (in microseconds).
NoMetadata == [trackid |-> -1, url |-> None, length |-> 0]

Metadata(s) ==
    IF ~(0 <= s.current_song_index /\ s.current_song_index < Len(s.playlist))
    THEN NoMetadata
    ELSE [trackid |-> s.current_song_index,
          url |-> s.playlist[s.current_song_index + 1].path,
          length |-> Max(0, s.duration_ms) * 1000]

\* notify_metadata: PropertiesChanged carrying the Metadata property.
notify_metadata(s) ==
    [s EXCEPT !.last.sig = @ \cup {"Metadata"},
              !.last.meta = Append(@, [md |-> Metadata(s), src |-> s.p_source])]

\* The Volume property read: audio_out.volume() (the fall-backs below it are
\* for a window without audio_out).
Volume(s) == s.audio_volume

\* notify_volume: PropertiesChanged carrying the Volume property.
notify_volume(s) == [s EXCEPT !.last.sig = @ \cup {"Volume"}]

\* Variant of force_playback_status that stores whatever status it is given.
force_playback_status_unchecked(s, status, timeout_ms) ==
    notify_playback([s EXCEPT !.forced_playback_status = status,
                              !.forced_until = s.now + Max(0, timeout_ms),
                              !.last.pushed = Append(@, status),
                                   !.last.ev = Append(@, "push")])

\* force_playback_status: any status other than the three names is ignored.
force_playback_status(s, status, timeout_ms) ==
    IF status \notin Statuses
    THEN s
    ELSE notify_playback([s EXCEPT !.forced_playback_status = status,
                                   !.forced_until = s.now + Max(0, timeout_ms),
                                   !.last.pushed = Append(@, status),
                                   !.last.ev = Append(@, "push")])

\* clear_forced_playback_status (the event logged tells whether a forced
\* status was in effect).
clear_forced_playback_status(s) ==
    [s EXCEPT !.forced_playback_status = None, !.forced_until = 0,
              !.acc_from = None,
              !.last.ev = Append(@, IF s.forced_playback_status # None /\ s.now < s.forced_until
                                    THEN "clear" ELSE "clear_none")]

\* _is_playing: the app's _last_playing (the getattr never raises, so the
\* fall-backs below it are dead code).
is_playing(s) == s.last_playing

\* ------------------------------------------------- MainWindow: bridge helpers
\* _mpris_notify(metadata, playback): nothing without a bridge.
mpris_notify(s, metadata, playback) ==
    IF ~s.mpris THEN s
    ELSE LET s1 == IF playback THEN notify_playback(s) ELSE s
         IN IF metadata THEN notify_metadata(s1) ELSE s1

mpris_force_status_immediate(s, status, timeout_ms) ==
    IF ~s.mpris THEN s ELSE force_playback_status(s, status, timeout_ms)

\* Variant of _mpris_force_actual_status that forces the status last observed
\* through a notification instead of the one the backend reports now.
mpris_force_last_observed_status(s) ==
    IF ~s.mpris THEN s
    ELSE force_playback_status(s, IF s.last_playing THEN "Playing" ELSE s.canonical,
                               ForceTimeoutMs)

\* _mpris_force_actual_status: force the status the backend reports now.
mpris_force_actual_status(s) ==
    IF ~s.mpris THEN s ELSE force_playback_status(s, BackendStatus(s), ForceTimeoutMs)

Schedule(s, k, delay) ==
    [s EXCEPT !.timers = Append(@, [k |-> k, due |-> s.now + delay, age |-> 0]),
              !.last.ev = Append(@, "timer")]

\* player_is_playing
player_is_playing(s) == s.p_state = "Playing"

\* Variant of _is_effectively_playing that asks the bridge when there is one.
is_effectively_playing_by_bridge(s) ==
    IF s.mpris THEN PlaybackStatus(s) = "Playing" ELSE s.p_state = "Playing"

\* _is_effectively_playing: explicit Playing, else explicit Paused, else
\* "the position moved in the last 0.7 s and is past 0".
is_effectively_playing(s) ==
    IF player_is_playing(s) THEN TRUE
    ELSE IF s.p_state = "Paused" THEN FALSE
    ELSE (s.now - LastPosMovedAt) < MovedRecentlyMs /\ s.p_pos > 0

\* _update_controls_enabled: play / prev / next / shuffle / repeat / remove
\* are enabled exactly while the playlist is not empty.
ControlsEnabled(s) == s.playlist # <<>>

\* ------------------------------------------------------ MainWindow: playback
\* playlist[current_song_index], the index being 0-based.
Entry(s, idx) == s.playlist[idx + 1]

ValidIndex(s) == 0 <= s.current_song_index /\ s.current_song_index < Len(s.playlist)

\* What acc_from remembers of an accepted toggle: the backend's state then,
\* for as long as a status forced on the bridge since then stands.
ToggledFrom(s) == IF s.mpris THEN s.p_state ELSE None

\* Variant of _toggle_guard_active that never ignores a toggle.
toggle_guard_never_active(s) ==
    [ret |-> FALSE,
     s |-> [s EXCEPT !.toggle_guard_until = s.now + Max(0, ToggleWindowMs),
                     !.acc_at = s.now, !.acc_from = ToggledFrom(s)]]

\* Variant of _toggle_guard_active that lets a toggle pass without arming the
\* guard for the next window.
toggle_guard_not_armed(s) ==
    IF s.now < s.toggle_guard_until
    THEN [ret |-> TRUE, s |-> s]
    ELSE [ret |-> FALSE, s |-> [s EXCEPT !.acc_at = s.now, !.acc_from = ToggledFrom(s)]]

\* _toggle_guard_active: TRUE while a toggle has to be ignored; otherwise it
\* arms the guard for the next window and returns FALSE.
toggle_guard_active(s) ==
    IF s.now < s.toggle_guard_until
    THEN [ret |-> TRUE, s |-> s]
    ELSE [ret |-> FALSE,
          s |-> [s EXCEPT !.toggle_guard_until = s.now + Max(0, ToggleWindowMs),
                          !.acc_at = s.now, !.acc_from = ToggledFrom(s)]]

\* ------------------------------------------------- GenericPlayerLyrics
\* lyrics.job_id  self._job_id
\* lyrics.view    what the lyrics view shows, and (for the history) the number
\*                of the set_media / clear call that put it there
\* lyrics.jobs    the workers started whose finished signal is not delivered:
\*                their job_id, their path and the number of the set_media
\*                call that started them
\* lyrics.calls   how many set_media / clear calls there have been
\* _cancel_job: the thread and worker are let go and the counter is bumped.
cancel_job(L) == [L EXCEPT !.job_id = @ + 1]

\* A .lrc or .txt file lies next to the media file.
HasSidecar(path) == path = "b.mp4"

\* set_media(path)
lyrics_set_media(L, path) ==
    LET L1 == [cancel_job(L) EXCEPT !.calls = @ + 1]
    IN IF HasSidecar(path)
       THEN [L1 EXCEPT !.view = [kind |-> "sidecar", call |-> L1.calls]]
       ELSE [L1 EXCEPT !.view = [kind |-> "fetching", call |-> L1.calls],
                       !.job_id = @ + 1,
                       !.jobs = @ \cup {[id |-> L1.job_id + 1, path |-> path,
                                         call |-> L1.calls]}]

\* clear()
lyrics_clear(L) ==
    LET L1 == [cancel_job(L) EXCEPT !.calls = @ + 1]
    IN [L1 EXCEPT !.view = [kind |-> "none", call |-> L1.calls]]

\* Variant of _on_ready that shows every result it is handed.
lyrics_on_ready_any(s, job, found) ==
    [s EXCEPT !.lyrics.view = [kind |-> IF found THEN "lyrics" ELSE "not found",
                               call |-> job.call],
              !.last.ready = "applied"]

\* _on_ready(job_id, res): results of older jobs are ignored.
lyrics_on_ready(s, job, found) ==
    IF job.id # s.lyrics.job_id
    THEN [s EXCEPT !.last.ready = "discarded"]
    ELSE [s EXCEPT !.lyrics.view = [kind |-> IF found THEN "lyrics" ELSE "not found",
                                    call |-> job.call],
                   !.last.ready = "applied"]

\* _lyrics_call(name, *args): nothing without the lyrics module.
lyrics_call(s, name, path) ==
    IF ~s.lyrics.present THEN s
    ELSE IF name = "set_media" THEN [s EXCEPT !.lyrics = lyrics_set_media(@, path)]
    ELSE IF name = "clear" THEN [s EXCEPT !.lyrics = lyrics_clear(@)]
    ELSE s

play_song(s) ==
    IF ~ValidIndex(s) THEN s
    ELSE
    LET media_info == Entry(s, s.current_song_index)
        file_path == media_info.path
    IN IF media_info.type = "stream"
       THEN LET s1 == player_setSource(s, file_path)
                s2 == player_play([s1 EXCEPT !.end_guard = FALSE])
                s3 == mpris_force_status_immediate(s2, "Playing", ForceTimeoutMs)
                s4 == Schedule(mpris_notify(s3, TRUE, FALSE), "notify", NotifyDelayMs)
            IN lyrics_call([s4 EXCEPT !.stop_button = TRUE, !.status_bar = "Streaming"],
                           "clear", "")
       ELSE IF file_path \in s.missing
       THEN [s EXCEPT !.last.box = "File Not Found"]
       ELSE LET s1 == player_setSource(s, file_path)
                s2 == player_play([s1 EXCEPT !.end_guard = FALSE])
                s3 == mpris_notify(s2, TRUE, TRUE)
            IN lyrics_call([s3 EXCEPT !.stop_button = TRUE, !.status_bar = "Playing"],
                           "set_media", file_path)

stop_song(s) ==
    LET s1 == player_stop(s)
        s2 == [s1 EXCEPT !.stop_button = FALSE, !.play_button = "Play",
                         !.status_bar = "Playback stopped."]
        s3 == lyrics_call(mpris_notify(s2, TRUE, TRUE), "clear", "")
    IN [s3 EXCEPT !.end_guard = TRUE]

\* Variant of the choices of next_song / prev_song that keeps the current index.
ShuffleChoices_WithCurrent(s) == 0..(Len(s.playlist) - 1)

\* The indices random.choice draws from in next_song / prev_song.
ShuffleChoices(s) ==
    {i \in 0..(Len(s.playlist) - 1) : ~(ValidIndex(s) /\ i = s.current_song_index)}

\* Variant of next_song without the test for an empty playlist.
next_song_on_empty(s, pick) ==
    IF s.shuffle_mode /\ Len(s.playlist) > 1
    THEN play_song([s EXCEPT !.current_song_index = pick])
    ELSE IF s.current_song_index + 1 < Len(s.playlist)
    THEN play_song([s EXCEPT !.current_song_index = @ + 1])
    ELSE stop_song([s EXCEPT !.status_bar = "End of playlist."])

\* next_song; pick is what random.choice returns in shuffle mode.
next_song(s, pick) ==
    IF s.playlist = <<>> THEN s
    ELSE IF s.shuffle_mode /\ Len(s.playlist) > 1
    THEN play_song([s EXCEPT !.current_song_index = pick])
    ELSE IF s.current_song_index + 1 < Len(s.playlist)
    THEN play_song([s EXCEPT !.current_song_index = @ + 1])
    ELSE stop_song([s EXCEPT !.status_bar = "End of playlist."])

\* Variant of prev_song that wraps from the first entry to the last one.
prev_song_wrapping(s, pick) ==
    IF s.playlist = <<>> THEN s
    ELSE IF s.shuffle_mode /\ Len(s.playlist) > 1
    THEN play_song([s EXCEPT !.current_song_index = pick])
    ELSE IF s.current_song_index - 1 >= 0
    THEN play_song([s EXCEPT !.current_song_index = @ - 1])
    ELSE play_song([s EXCEPT !.status_bar = "Start of playlist.",
                             !.current_song_index = Len(s.playlist) - 1])

prev_song(s, pick) ==
    IF s.playlist = <<>> THEN s
    ELSE IF s.shuffle_mode /\ Len(s.playlist) > 1
    THEN play_song([s EXCEPT !.current_song_index = pick])
    ELSE IF s.current_song_index - 1 >= 0
    THEN play_song([s EXCEPT !.current_song_index = @ - 1])
    ELSE play_song([s EXCEPT !.status_bar = "Start of playlist.",
                             !.current_song_index = 0])

\* Variant of _advance_after_end that moves on to the next track in repeat
\* mode as well.
advance_after_end_no_repeat(s, pick) == next_song(s, pick)

\* _advance_after_end
advance_after_end(s, pick) ==
    IF s.repeat_mode
    THEN [player_play(player_setPosition(s, 0)) EXCEPT !.end_guard = FALSE]
    ELSE next_song(s, pick)

\* The advance runs for the track boundary of the given age: first or repeated.
RunAdvance(s, age, pick) ==
    LET how == IF age = 2 THEN "old" ELSE IF age \in s.advanced THEN "dup" ELSE "first"
        s1 == [s EXCEPT !.last.adv = how,
                        !.advanced = IF age = 2 THEN @ ELSE @ \cup {age}]
    IN advance_after_end(s1, pick)

\* Variant of EffectiveState that takes _mpris_last_playing as soon as
\* prefer_last_state is set or the backend is neither playing nor paused.
EffectiveState_FlagOnEither(s, prefer_last_state) ==
    LET playing_backend == s.p_state = "Playing"
        paused_backend == s.p_state = "Paused"
    IN IF prefer_last_state \/ (~playing_backend /\ ~paused_backend)
       THEN IF s.mpris_last_playing THEN "Playing" ELSE "Paused"
       ELSE IF playing_backend THEN "Playing" ELSE "Paused"

\* The state play_pause_song acts on: the backend's, unless prefer_last_state
\* is set and the backend is stopped or ambiguous, then _mpris_last_playing.
EffectiveState(s, prefer_last_state) ==
    LET playing_backend == s.p_state = "Playing"
        paused_backend == s.p_state = "Paused"
        stopped_backend == s.p_state = "Stopped"
    IN IF prefer_last_state /\ ((~playing_backend /\ ~paused_backend) \/ stopped_backend)
       THEN IF s.mpris_last_playing THEN "Playing" ELSE "Paused"
       ELSE IF playing_backend THEN "Playing"
       ELSE IF paused_backend THEN "Paused"
       ELSE "Stopped"

\* Variant of the decision of play_pause_song that pushes the status the
\* player is leaving instead of the one the command leads to.
PlayPauseBody_StalePrediction(s, prefer_last_state) ==
    LET eff == EffectiveState(s, prefer_last_state)
        s0 == [s EXCEPT !.last.eff = eff]
    IN IF eff = "Playing"
       THEN Schedule(player_pause(mpris_force_status_immediate(s0, "Playing", ForceTimeoutMs)),
                     "notify", NotifyDelayMs)
       ELSE IF eff = "Paused"
       THEN Schedule(player_play(mpris_force_status_immediate(s0, "Paused", ForceTimeoutMs)),
                     "notify", NotifyDelayMs)
       ELSE s0

\* Variant of the decision of play_pause_song that commands the backend
\* first and pushes the predicted status afterwards.
PlayPauseBody_CommandFirst(s, prefer_last_state) ==
    LET eff == EffectiveState(s, prefer_last_state)
        s0 == [s EXCEPT !.last.eff = eff]
    IN IF eff = "Playing"
       THEN Schedule(mpris_force_status_immediate(player_pause(s0), "Paused", ForceTimeoutMs),
                     "notify", NotifyDelayMs)
       ELSE IF eff = "Paused"
       THEN Schedule(mpris_force_status_immediate(player_play(s0), "Playing", ForceTimeoutMs),
                     "notify", NotifyDelayMs)
       ELSE LET s1 == IF s0.current_song_index = -1 /\ s0.playlist # <<>>
                      THEN [s0 EXCEPT !.current_song_index = 0] ELSE s0
            IN IF s1.playlist = <<>> THEN s1
               ELSE Schedule(mpris_force_status_immediate(play_song(s1), "Playing", ForceTimeoutMs),
                             "notify", NotifyDelayStoppedMs)

PlayPauseBody(s, prefer_last_state) ==
    LET eff == EffectiveState(s, prefer_last_state)
        s0 == [s EXCEPT !.last.eff = eff]
    IN IF eff = "Playing"
       THEN Schedule(player_pause(mpris_force_status_immediate(s0, "Paused", ForceTimeoutMs)),
                     "notify", NotifyDelayMs)
       ELSE IF eff = "Paused"
       THEN Schedule(player_play(mpris_force_status_immediate(s0, "Playing", ForceTimeoutMs)),
                     "notify", NotifyDelayMs)
       ELSE LET s1 == IF s0.current_song_index = -1 /\ s0.playlist # <<>>
                      THEN [s0 EXCEPT !.current_song_index = 0] ELSE s0
            IN IF s1.playlist = <<>> THEN s1
               ELSE Schedule(play_song(mpris_force_status_immediate(s1, "Playing", ForceTimeoutMs)),
                             "notify", NotifyDelayStoppedMs)

\* play_pause_song(prefer_last_state)
play_pause_song(s, prefer_last_state) ==
    LET g == toggle_guard_active([s EXCEPT !.req_at = s.now])
    IN IF g.ret
       THEN [g.s EXCEPT !.last.eff = "ignored"]
       ELSE PlayPauseBody(g.s, prefer_last_state)

\* _toggle_play_pause_shortcut (Alt+P, Space, media keys)
toggle_play_pause_shortcut(s) ==
    LET playing_now == is_effectively_playing(s)
        intended == IF playing_now THEN "Paused" ELSE "Playing"
        s1 == mpris_force_status_immediate(s, intended, ForceTimeoutMs)
        s2 == [s1 EXCEPT !.last_playing = playing_now]
        s3 == play_pause_song(s2, TRUE)
    IN Schedule(s3, "resync", ResyncDelayMs)

\* ------------------------------------------ MainWindow: backend notifications
\* update_slider(position_ms): the end-of-track watchdog.  (The bookkeeping of
\* _last_pos_ms above it raises on the unset attribute and is swallowed.)
update_slider(s, position_ms, age) ==
    IF s.duration_ms > 0
       /\ position_ms >= Max(0, s.duration_ms - EndWindowMs)
       /\ ~s.end_guard
    THEN LET s1 == [s EXCEPT !.end_guard = TRUE]
         IN [s1 EXCEPT !.timers = Append(@, [k |-> "advance",
                                             due |-> s.now + AdvanceDelayMs,
                                             age |-> age])]
    ELSE s

set_duration(s, d) == [s EXCEPT !.duration_ms = Max(0, d), !.end_guard = FALSE]

handle_media_status(s, name, age, pick) ==
    LET s1 == IF name = "EndOfMedia" THEN RunAdvance(s, age, pick) ELSE s
    IN IF name \in {"LoadedMedia", "BufferedMedia"}
       THEN [s1 EXCEPT !.end_guard = FALSE] ELSE s1

\* Variant of handle_error that reports the error and leaves the backend alone.
handle_error_report_only(s, err) ==
    IF err # "" THEN [s EXCEPT !.last.box = "Playback Error"] ELSE s

\* handle_error; err is what player.errorString() returns.
handle_error(s, err) ==
    IF err # ""
    THEN stop_song([s EXCEPT !.last.box = "Playback Error"])
    ELSE s

\* Variant of the state-change handler that takes its value from the cached
\* flag (the handler's fallback branch) instead of the notified state.
on_playback_state_changed_from_cache(s, state) ==
    LET playing == s.last_playing
        s1 == [s EXCEPT !.last_playing = playing, !.mpris_last_playing = playing,
                        !.canonical = state,
                        !.play_button = IF playing THEN "Pause" ELSE "Play"]
        s2 == IF s1.mpris THEN clear_forced_playback_status(s1) ELSE s1
    IN mpris_notify(s2, FALSE, TRUE)

\* Variant of the state-change handler that leaves a forced status in place.
on_playback_state_changed_keep_forced(s, state) ==
    LET playing == state = "Playing"
        s1 == [s EXCEPT !.last_playing = playing, !.mpris_last_playing = playing,
                        !.canonical = state,
                        !.play_button = IF playing THEN "Pause" ELSE "Play"]
    IN mpris_notify(s1, FALSE, TRUE)

\* _on_playback_state_changed / _on_state_changed
on_playback_state_changed(s, state) ==
    LET playing == state = "Playing"
        s1 == [s EXCEPT !.last_playing = playing, !.mpris_last_playing = playing,
                        !.canonical = state,
                        !.play_button = IF playing THEN "Pause" ELSE "Play"]
        s2 == IF s1.mpris THEN clear_forced_playback_status(s1) ELSE s1
    IN mpris_notify(s2, FALSE, TRUE)

\* ------------------------------------------------------- the bridge's commands
Play(s) ==
    IF ~is_playing(s)
    THEN play_pause_song(force_playback_status(s, "Playing", BridgeForceTimeoutMs), FALSE)
    ELSE s

Pause(s) ==
    IF is_playing(s)
    THEN play_pause_song(force_playback_status(s, "Paused", BridgeForceTimeoutMs), FALSE)
    ELSE s

PlayPause(s) ==
    play_pause_song(force_playback_status(s, IF is_playing(s) THEN "Paused" ELSE "Playing",
                                          BridgeForceTimeoutMs), FALSE)

\* ------------------------------------------------------- playlist management
\* splitext(basename(path))[0] of the paths of the model.
Stem(path) ==
    CASE path = "a.mp3" -> "a"
      [] path = "b.mp4" -> "b"
      [] path = "c.txt" -> "c"
      [] path = "Ann - Song.mp3" -> "Ann - Song"
      [] OTHER -> ""

\* The stem split at the first separator (" - " and its variants), if any.
SplitStem(stem) ==
    IF stem = "Ann - Song"
    THEN [artist |-> "Ann", title |-> "Song"]
    ELSE [artist |-> "", title |-> stem]

\* What mutagen reads from the file: nothing from a file that is gone (the
\* exception is swallowed) or that carries no tags.
Tags(s, path) ==
    IF path = "a.mp3" /\ path \notin s.missing
    THEN [artist |-> "", title |-> "Alpha"]
    ELSE [artist |-> "", title |-> ""]

\* _build_media_meta: artist and title from the file name, overridden by the
\* tags of an audio file; the title falls back to "Unknown".
build_media_meta(s, file_path, mtype) ==
    LET name == SplitStem(Stem(file_path))
        tags == IF mtype = "audio" THEN Tags(s, file_path)
                ELSE [artist |-> "", title |-> ""]
        artist == IF tags.artist # "" THEN tags.artist ELSE name.artist
        title0 == IF tags.title # "" THEN tags.title ELSE name.title
        title == IF title0 # "" THEN title0 ELSE "Unknown"
    IN [artist |-> artist, title |-> title,
        display |-> IF artist # "" THEN <<artist, title>> ELSE <<title>>]

\* {"path": file_path, "type": mtype, **meta}
NewEntry(file_path, mtype, meta) ==
    [path |-> file_path, type |-> mtype, artist |-> meta.artist,
     title |-> meta.title, display |-> meta.display]

\* add_songs with one file picked in the dialog.
add_songs(s, file_path) ==
    IF \E i \in 1..Len(s.playlist) : s.playlist[i].path = file_path THEN s
    ELSE IF file_path \notin (SUPPORTED_VIDEO_EXTENSIONS \cup SUPPORTED_AUDIO_EXTENSIONS)
    THEN [s EXCEPT !.last.box = "Unsupported Format"]
    ELSE IF file_path \in s.missing
    THEN [s EXCEPT !.last.box = "File Not Found"]
    ELSE LET mtype == IF file_path \in SUPPORTED_VIDEO_EXTENSIONS THEN "video" ELSE "audio"
         IN [s EXCEPT !.playlist =
                Append(@, NewEntry(file_path, mtype, build_media_meta(s, file_path, mtype)))]

\* _process_dropped_files with one file dropped on the window: as add_songs,
\* without its message boxes.
process_dropped_files(s, file_path) ==
    IF file_path \notin (SUPPORTED_VIDEO_EXTENSIONS \cup SUPPORTED_AUDIO_EXTENSIONS) THEN s
    ELSE IF file_path \in s.missing THEN s
    ELSE IF \E i \in 1..Len(s.playlist) : s.playlist[i].path = file_path THEN s
    ELSE LET mtype == IF file_path \in SUPPORTED_VIDEO_EXTENSIONS THEN "video" ELSE "audio"
         IN [s EXCEPT !.playlist =
                Append(@, NewEntry(file_path, mtype, build_media_meta(s, file_path, mtype)))]

\* add_custom_stream with a non-empty name and URL entered.
add_custom_stream(s, url) ==
    IF \E i \in 1..Len(s.playlist) :
           s.playlist[i].type = "stream" /\ s.playlist[i].path = url
    THEN [s EXCEPT !.last.box = "Already Added"]
    ELSE [s EXCEPT !.playlist =
             Append(@, NewEntry(url, "stream",
                                [artist |-> "", title |-> StreamName,
                                 display |-> <<StreamName>>]))]

\* json.dump of a list of dicts: each dict is written as its key/value pairs,
\* in the order of its keys.
KeyOrder == <<"path", "type", "artist", "title", "display">>

HasKey(d, k) == k \in DOMAIN d

json_dump_object(d) ==
    LET keys == SelectSeq(KeyOrder, LAMBDA k : HasKey(d, k))
    IN [j \in 1..Len(keys) |-> <<keys[j], d[keys[j]]>>]

\* Variant of json.dump that writes the list from its last element to its first.
json_dump_reversed(list) ==
    [i \in 1..Len(list) |-> json_dump_object(list[Len(list) + 1 - i])]

json_dump(list) == [i \in 1..Len(list) |-> json_dump_object(list[i])]

\* json.load: each object becomes a dict; of two pairs with one key the later
\* one wins.
json_load_object(obj) ==
    [k \in {obj[j][1] : j \in 1..Len(obj)} |->
        LET j == CHOOSE j \in 1..Len(obj) :
                     /\ obj[j][1] = k
                     /\ \A j2 \in 1..Len(obj) : obj[j2][1] = k => j2 <= j
        IN obj[j][2]]

json_load(doc) == [i \in 1..Len(doc) |-> json_load_object(doc[i])]

\* save_playlist with a file name chosen in the dialog; src remembers the
\* playlist the file was written from.
save_playlist(s) ==
    IF s.playlist = <<>>
    THEN [s EXCEPT !.last.box = "Empty Playlist"]
    ELSE [s EXCEPT !.playlist_file = [written |-> TRUE, doc |-> json_dump(s.playlist),
                                      src |-> s.playlist],
                   !.last.box = "Playlist Saved"]

\* Variant of the backfill that leaves every entry as it was read.
Backfilled_AsRead(s, item) == item

\* The entry of a loaded playlist, with its derived fields filled in when one
\* of them is missing (item.update(meta)).
Backfilled(s, item) ==
    IF HasKey(item, "display") /\ HasKey(item, "artist") /\ HasKey(item, "title")
    THEN item
    ELSE NewEntry(item.path, item.type, build_media_meta(s, item.path, item.type))

\* The row of an entry cannot be built: item.get("display") is missing or
\* empty and basename() of its path, which is not a string, raises.
AddItemRaises(item) ==
    /\ HasKey(item, "display") => item.display = <<>>
    /\ HasKey(item, "path")
    /\ item.path = None

\* load_playlist with the file whose content is doc chosen in the dialog.
\* The playlist is replaced before its entries are processed in place, one
\* after the other; an entry that raises ends the loop.
load_playlist(s, doc) ==
    LET data == json_load(doc)
        done == [i \in 1..Len(data) |-> Backfilled(s, data[i])]
        bad == {i \in 1..Len(data) : AddItemRaises(done[i])}
    IN IF ~(\A i \in 1..Len(data) : HasKey(data[i], "path") /\ HasKey(data[i], "type"))
       THEN [s EXCEPT !.last.box = "Invalid File"]
       ELSE IF bad = {}
       THEN [s EXCEPT !.playlist = done, !.last.box = "Playlist Loaded"]
       ELSE LET k == CHOOSE i \in bad : \A j \in bad : i <= j
            IN [s EXCEPT !.playlist = [i \in 1..Len(data) |->
                                          IF i <= k THEN done[i] ELSE data[i]],
                         !.last.box = "Error Loading Playlist"]

\* load_playlist with a file f that may not be readable, or not hold a list:
\* open() or json.load() raises, or isinstance(data, list) fails.
load_playlist_file(s, f) ==
    IF f.kind = "unreadable" THEN [s EXCEPT !.last.box = "Error Loading Playlist"]
    ELSE IF f.kind = "object" THEN [s EXCEPT !.last.box = "Invalid File"]
    ELSE load_playlist(s, json_dump(f.list))

\* remove_songs with the one row selected in the playlist view.
remove_songs(s, row) ==
    LET s1 == [s EXCEPT !.playlist = RemoveAt(@, row + 1)]
        s2 == IF row = s1.current_song_index THEN stop_song(s1) ELSE s1
    IN IF s2.current_song_index >= Len(s2.playlist)
       THEN [s2 EXCEPT !.current_song_index = Len(s2.playlist) - 1]
       ELSE s2

\* play_selected_song(item): double click on a row of the playlist view.
play_selected_song(s, row) == play_song([s EXCEPT !.current_song_index = row])

\* change_volume(value): the slot of volume_slider.valueChanged.
change_volume(s, value) ==
    [s EXCEPT !.audio_volume = Max(0, Min(1000, value * 10)),
              !.status_bar = "Volume"]

\* QSlider.setValue: the value is bound to the range 0..100, and valueChanged
\* is emitted (and its slot run) only when the value changes.
volume_slider_setValue(s, value) ==
    LET v == Max(0, Min(100, value))
    IN IF v = s.volume_slider THEN s
       ELSE change_volume([s EXCEPT !.volume_slider = v], v)

\* int(x) for x = a / b with b > 0: truncation towards zero.
Trunc(a, b) == IF a >= 0 THEN a \div b ELSE -((-a) \div b)

\* int(v * 100) for the double v nearest to a number of thousandths: the
\* product of 0.29, 0.57 and 0.58 by 100 rounds to just below the whole
\* number (28.999999999999996, ...), so that it truncates to one less.
FloatShort == {290, 570, 580}

IntTimes100(v) == IF v \in FloatShort THEN Trunc(v * 100, 1000) - 1 ELSE Trunc(v * 100, 1000)

\* Variant of the Volume setter that takes its fall-back path: the clamped
\* value is set on audio_out directly and the slider is left alone.
SetVolume_Direct(s, value) ==
    LET v == IF value < 0 THEN 0 ELSE IF value > 1000 THEN 1000 ELSE value
    IN notify_volume([s EXCEPT !.audio_volume = v])

\* The Volume property written with value (in thousandths): clamped to
\* [0, 1], set through the slider as int(v * 100), then notified.
SetVolume(s, value) ==
    LET v == IF value < 0 THEN 0 ELSE IF value > 1000 THEN 1000 ELSE value
    IN notify_volume(volume_slider_setValue(s, IntTimes100(v)))

toggle_shuffle(s) == [s EXCEPT !.shuffle_mode = ~@, !.status_bar = "Shuffle Mode"]

toggle_repeat(s) == [s EXCEPT !.repeat_mode = ~@, !.status_bar = "Repeat Mode"]

\* ------------------------------------------------------------------- actions
\* The state after MainWindow.__init__; bridge tells whether the MPRIS bridge
\* could be constructed.
InitWith(bridge, with_lyrics) ==
    /\ playlist = <<>>
    /\ current_song_index = -1
    /\ shuffle_mode = FALSE
    /\ repeat_mode = FALSE
    /\ duration_ms = 0
    /\ end_guard = FALSE
    /\ toggle_guard_until = 0
    /\ last_playing = FALSE
    /\ mpris_last_playing = FALSE
    /\ status_bar = ""
    /\ play_button = "Play"
    /\ stop_button = FALSE
    /\ volume_slider = InitialVolume
    /\ audio_volume = InitialVolume * 10
    /\ playlist_file = NoFile
    /\ lyrics = [present |-> with_lyrics, job_id |-> 0, calls |-> 0, jobs |-> {},
                 view |-> [kind |-> "initial", call |-> 0]]
    /\ timers = <<>>
    /\ mpris = bridge
    /\ forced_playback_status = None
    /\ forced_until = 0
    /\ published = None
    /\ p_state = "Stopped"
    /\ p_source = None
    /\ p_pos = 0
    /\ p_status = "NoMedia"
    /\ notif = <<>>
    /\ now = StartTime
    /\ missing = {}
    /\ last = NoLast("init")
    /\ advanced = {}
    /\ req_at = -1
    /\ acc_at = -1
    /\ acc_from = None
    /\ canonical = "Stopped"

\* Start-up without the lyrics module (its construction raised).
InitBridge(bridge) == InitWith(bridge, FALSE)

\* Start-up with the bridge available.
Init == InitBridge(TRUE)

\* Start-up with the bridge and the lyrics module available.
InitLyrics == InitWith(TRUE, TRUE)

\* Start-up with or without the bridge (its construction may raise).
InitAnyBridge == \E bridge \in BOOLEAN : InitBridge(bridge)

\* What random.choice can return in this state (one dummy value when the
\* handler does not draw).
Picks(s) ==
    IF s.shuffle_mode /\ Len(s.playlist) > 1 THEN ShuffleChoices(s) ELSE {0}

\* --- the user, at the window
ClickPlay ==
    /\ ControlsEnabled(St)
    /\ Commit(play_pause_song(BeginNav(St, "play_button"), FALSE))

PressShortcut ==
    \E s \in {BeginNav(St, "shortcut")} : Commit(toggle_play_pause_shortcut(s))

ClickStop ==
    /\ stop_button
    /\ Commit(stop_song(Begin(St, "stop_song")))

ClickNext ==
    /\ ControlsEnabled(St)
    /\ \E pick \in Picks(St) : Commit(next_song(BeginNav(St, "next_song"), pick))

ClickPrev ==
    /\ ControlsEnabled(St)
    /\ \E pick \in Picks(St) : Commit(prev_song(BeginNav(St, "prev_song"), pick))

DoubleClick ==
    \E row \in 0..(Len(playlist) - 1) :
        Commit(play_selected_song(Begin(St, "play_selected_song"), row))

\* A row is double-clicked while notifications of the track being played are
\* still to be delivered.
SwitchTrack ==
    /\ notif # <<>>
    /\ \E row \in 0..(Len(playlist) - 1) :
           CommitWithin(play_selected_song(Begin(St, "play_selected_song"), row),
                        MaxSwitchNotif)

AddSongs ==
    /\ Len(playlist) < MaxPlaylist
    /\ \E f \in Files : Commit(add_songs(Begin(St, "add_songs"), f))

\* Two files are picked at once in the dialog, for an empty playlist.
AddTwoSongs ==
    /\ playlist = <<>>
    /\ MaxPlaylist >= 2
    /\ \E s \in {Begin(St, "add_songs")} :
           Commit(add_songs(add_songs(s, "a.mp3"), "b.mp4"))

\* The first file is added to an empty playlist.
AddFirstSong == playlist = <<>> /\ AddSongs

\* The first file added to an empty playlist is an audio file.
AddFirstAudio ==
    /\ playlist = <<>>
    /\ \E f \in SUPPORTED_AUDIO_EXTENSIONS : Commit(add_songs(Begin(St, "add_songs"), f))

RemoveSongs ==
    /\ ControlsEnabled(St)
    /\ \E row \in 0..(Len(playlist) - 1) :
           Commit(remove_songs(Begin(St, "remove_songs"), row))

AddCustomStream ==
    /\ Len(playlist) < MaxPlaylist
    /\ \E u \in Streams : Commit(add_custom_stream(Begin(St, "add_custom_stream"), u))

\* A station is added below the files of a full playlist.
AddStreamAfterFiles ==
    /\ Len(playlist) >= MaxPlaylist
    /\ Len(playlist) < MaxLongPlaylist
    /\ \E u \in Streams : Commit(add_custom_stream(Begin(St, "add_custom_stream"), u))

\* A file of any extension is picked in the dialog, or dropped on the window.
AddAnyFile ==
    /\ Len(playlist) < MaxPlaylist
    /\ \E f \in AnyFiles : Commit(add_songs(Begin(St, "add_songs"), f))

DropFile ==
    /\ Len(playlist) < MaxPlaylist
    /\ \E f \in AnyFiles : Commit(process_dropped_files(Begin(St, "drop"), f))

\* File menu: the playlist is saved, the saved file is loaded back, or a
\* playlist file that came from elsewhere is loaded.
BeginLoad(s, which, doc) ==
    [Begin(s, "load_playlist") EXCEPT !.last.arg = which, !.last.doc = doc]

SavePlaylist ==
    \E s \in {Begin(St, "save_playlist")} : Commit(save_playlist(s))

LoadSavedPlaylist ==
    /\ playlist_file.written
    /\ \E s \in {BeginLoad(St, "saved", playlist_file.doc)} :
           Commit(load_playlist(s, playlist_file.doc))

LoadLegacyPlaylist ==
    \E list \in LegacyPlaylists :
        \E s \in {BeginLoad(St, "legacy", json_dump(list))} :
            Commit(load_playlist(s, json_dump(list)))

\* A file that does not load is chosen in the dialog.
LoadDamagedPlaylist ==
    \E f \in DamagedFiles :
        \E s \in {BeginLoad(St, f.kind, json_dump(f.list))} :
            Commit(load_playlist_file(s, f))

ToggleShuffle ==
    /\ ControlsEnabled(St)
    /\ Commit(toggle_shuffle(Begin(St, "toggle_shuffle")))

ToggleRepeat ==
    /\ ControlsEnabled(St)
    /\ Commit(toggle_repeat(Begin(St, "toggle_repeat")))

\* The user drags the volume slider and releases it on another value.
MoveVolumeSlider ==
    \E value \in SliderStops \ {volume_slider} :
        Commit(volume_slider_setValue(Begin(St, "volume_slider"), value))

\* --- an MPRIS client, over the bridge
BridgePlay == mpris /\ Commit(Play(BeginNav(St, "Play")))

BridgePause == mpris /\ Commit(Pause(BeginNav(St, "Pause")))

BridgePlayPause == mpris /\ Commit(PlayPause(BeginNav(St, "PlayPause")))

BridgeStop == mpris /\ Commit(stop_song(Begin(St, "Stop")))

BridgeNext ==
    /\ mpris
    /\ \E pick \in Picks(St) : Commit(next_song(BeginNav(St, "Next"), pick))

BridgePrevious ==
    /\ mpris
    /\ \E pick \in Picks(St) : Commit(prev_song(BeginNav(St, "Previous"), pick))

\* The client writes the Volume property.
BeginWrite(s, value) == [Begin(s, "Volume") EXCEPT !.last.val = value]

BridgeSetVolume ==
    /\ mpris
    /\ \E value \in VolumeInputs : Commit(SetVolume(BeginWrite(St, value), value))

BridgeSetVolumeStop ==
    /\ mpris
    /\ \E value \in VolumeStops : Commit(SetVolume(BeginWrite(St, value), value))

\* force_playback_status is called on the bridge with its default timeout.
ForceStatus ==
    /\ mpris
    /\ \E status \in StatusInputs :
           Commit(force_playback_status(
                      [Begin(St, "force_playback_status") EXCEPT !.last.arg = status],
                      status, BridgeForceTimeoutMs))

\* --- the event loop: the finished signal of a lyrics worker is delivered,
\* with lyrics or without, in whatever order the workers complete
LyricsReady ==
    \E job \in lyrics.jobs, found \in BOOLEAN :
        Commit(lyrics_on_ready([Begin(St, "on_ready") EXCEPT !.lyrics.jobs = @ \ {job}],
                               job, found))

\* --- the environment
\* A file of the playlist is deleted from the disk.
DeleteFile ==
    \E f \in Files \ missing :
        Commit([Begin(St, "env") EXCEPT !.missing = @ \cup {f}])

Tick ==
    /\ now + TickMs <= StartTime + MaxTime
    /\ Commit([Begin(St, "env") EXCEPT !.now = @ + TickMs])

\* --- the event loop: a due single-shot timer fires
TimerCallback(s, t, pick) ==
    CASE t.k = "advance" -> RunAdvance(s, t.age, pick)
      [] t.k = "notify" -> mpris_notify(s, FALSE, TRUE)
      [] t.k = "resync" -> mpris_force_actual_status(s)

FireTimer ==
    \E i \in 1..Len(timers) :
        /\ timers[i].due <= now
        /\ \E pick \in Picks(St) :
               Commit(TimerCallback([Begin(St, timers[i].k) EXCEPT !.timers = RemoveAt(@, i),
                                                                   !.last.due = timers[i].due],
                                    timers[i], pick))

\* --- the event loop: the oldest backend notification is delivered
Dispatch(s, n, pick) ==
    CASE n.k = "state" -> on_playback_state_changed(s, n.sv)
      [] n.k = "pos" -> update_slider(s, n.nv, n.age)
      [] n.k = "dur" -> set_duration(s, n.nv)
      [] n.k = "status" -> handle_media_status(s, n.sv, n.age, pick)
      [] n.k = "error" -> handle_error(s, n.sv)

Deliver ==
    /\ notif # <<>>
    /\ \E pick \in Picks(St) :
           Commit(Dispatch([Begin(St, Head(notif).k) EXCEPT !.notif = Tail(@)],
                           Head(notif), pick))

\* --- the backend, on its own
\* The source finishes loading: duration and LoadedMedia are reported.
BackendLoaded ==
    /\ p_status = "LoadingMedia"
    /\ Commit(Emit(Emit([Begin(St, "env") EXCEPT !.p_status = "LoadedMedia"],
                        DurN(Duration(p_source))),
                   StatusN("LoadedMedia")))

\* Playback of the loaded source fails: the backend emits its error signal
\* (once per failure: not while an earlier error is still to be delivered).
BackendError ==
    /\ p_source # None
    /\ p_state = "Playing"
    /\ \A i \in 1..Len(notif) : notif[i].k # "error"
    /\ \E err \in ErrorStrings : Commit(Emit(Begin(St, "env"), ErrorN(err)))

\* Playback moves on and the new position is reported.
BackendAdvance ==
    /\ p_state = "Playing"
    /\ p_status = "LoadedMedia"
    /\ p_pos < Duration(p_source)
    /\ LET p == Min(p_pos + PosStep, Duration(p_source))
       IN Commit(Emit([Begin(St, "env") EXCEPT !.p_pos = p], PosN(p)))

\* Playback reaches the end: the backend stops and reports EndOfMedia.
BackendEndOfMedia ==
    /\ p_state = "Playing"
    /\ p_status = "LoadedMedia"
    /\ Duration(p_source) > 0
    /\ p_pos = Duration(p_source)
    /\ LET s1 == [Begin(St, "env") EXCEPT !.p_state = "Stopped",
                                                  !.p_status = "EndOfMedia"]
       IN \/ Commit(Emit(Emit(s1, StateN("Stopped")), StatusN("EndOfMedia")))
          \/ Commit(Emit(Emit(s1, StatusN("EndOfMedia")), StateN("Stopped")))

Next ==
    \/ ClickPlay \/ PressShortcut \/ ClickStop \/ ClickNext \/ ClickPrev
    \/ DoubleClick \/ AddSongs \/ RemoveSongs \/ AddCustomStream
    \/ ToggleShuffle \/ ToggleRepeat
    \/ AddAnyFile \/ DropFile \/ SavePlaylist \/ LoadSavedPlaylist \/ LoadLegacyPlaylist
    \/ BridgePlay \/ BridgePause \/ BridgePlayPause \/ BridgeStop
    \/ BridgeNext \/ BridgePrevious \/ BridgeSetVolume \/ ForceStatus
    \/ MoveVolumeSlider
    \/ DeleteFile \/ Tick \/ FireTimer \/ Deliver \/ LyricsReady
    \/ BackendLoaded \/ BackendAdvance \/ BackendEndOfMedia \/ BackendError

Spec == Init /\ [][Next]_vars

\* Toggling: every origin of a play/pause request, the clock, the timers and
\* the backend's notifications; tracks do not run to their end.
NextToggle ==
    \/ ClickPlay \/ PressShortcut \/ BridgePlay \/ BridgePause \/ BridgePlayPause
    \/ AddFirstSong \/ DoubleClick
    \/ Tick \/ FireTimer \/ Deliver \/ BackendLoaded

SpecToggle == Init /\ [][NextToggle]_vars

\* The decision of a toggle: the play button, the shortcut and the bridge's
\* PlayPause, on a player that is also stopped from the window.
NextDecide ==
    \/ ClickPlay \/ PressShortcut \/ BridgePlayPause \/ ClickStop
    \/ AddFirstSong \/ AddCustomStream
    \/ Tick \/ FireTimer \/ Deliver \/ BackendLoaded

SpecDecide == Init /\ [][NextDecide]_vars

\* Reconciliation after a toggle from the play button, of a file that may
\* have disappeared from the disk.
NextReconcile ==
    \/ ClickPlay \/ AddFirstSong \/ DeleteFile
    \/ Tick \/ FireTimer \/ Deliver \/ BackendLoaded

SpecReconcile == Init /\ [][NextReconcile]_vars

\* Track selection: next / previous from the window and the bridge, over
\* playlists of local files that are added and removed, some of which
\* disappear from the disk or fail to play.
NextNav ==
    \/ AddSongs \/ RemoveSongs \/ DoubleClick
    \/ ClickNext \/ ClickPrev \/ BridgeNext \/ BridgePrevious
    \/ ToggleShuffle \/ DeleteFile \/ Deliver \/ BackendLoaded \/ BackendError

SpecNav == Init /\ [][NextNav]_vars

\* Core playback with and without the bridge: a playlist of one audio file is
\* played and toggled from the keyboard up to the end of the track.
NextCore ==
    \/ PressShortcut \/ AddFirstAudio \/ DoubleClick
    \/ Tick \/ FireTimer \/ Deliver
    \/ BackendLoaded \/ BackendAdvance \/ BackendEndOfMedia

SpecCore == InitAnyBridge /\ [][NextCore]_vars

\* What the bridge shows: tracks are selected, loaded, removed and deleted
\* from the disk while the volume is changed from the window and the bridge.
NextBridge ==
    \/ AddSongs \/ RemoveSongs \/ DoubleClick \/ ClickNext
    \/ MoveVolumeSlider \/ BridgeSetVolumeStop
    \/ DeleteFile \/ Deliver \/ BackendLoaded

SpecBridge == Init /\ [][NextBridge]_vars

\* The status the bridge shows: it is forced by play/pause requests and by
\* direct calls with any string, expires with the clock and is cleared by the
\* backend's notifications.
NextForce ==
    \/ ForceStatus \/ BridgePlayPause \/ AddFirstSong \/ DoubleClick
    \/ Tick \/ FireTimer \/ Deliver \/ BackendLoaded

SpecForce == Init /\ [][NextForce]_vars

\* The playlist and its file: entries are added, dropped and removed, the
\* playlist is saved and loaded, and files disappear from the disk.
NextPersist ==
    \/ AddAnyFile \/ DropFile \/ AddCustomStream \/ RemoveSongs
    \/ SavePlaylist \/ LoadSavedPlaylist \/ LoadLegacyPlaylist
    \/ DeleteFile

SpecPersist == Init /\ [][NextPersist]_vars

\* Lyrics: tracks are started and stopped while lyrics workers complete,
\* with the lyrics module available.
NextLyrics ==
    \/ AddSongs \/ DoubleClick \/ ClickStop \/ LyricsReady \/ Deliver

SpecLyrics == InitLyrics /\ [][NextLyrics]_vars

\* The volume alone, written from the window and from the bridge.
NextVolume == MoveVolumeSlider \/ BridgeSetVolume

SpecVolume == Init /\ [][NextVolume]_vars

\* End of track: tracks play to their end, the watchdog and EndOfMedia race.
NextEnd ==
    \/ AddSongs \/ DoubleClick \/ ToggleRepeat
    \/ Tick \/ FireTimer \/ Deliver
    \/ BackendLoaded \/ BackendAdvance \/ BackendEndOfMedia

SpecEnd == Init /\ [][NextEnd]_vars

\* The watchdog across a change of track: two files, one of them playing when
\* the other is double-clicked.
NextWatchdog ==
    \/ AddTwoSongs \/ DoubleClick \/ SwitchTrack
    \/ Tick \/ FireTimer \/ Deliver
    \/ BackendLoaded \/ BackendAdvance

SpecWatchdog == Init /\ [][NextWatchdog]_vars

\* Stopping from the window near the end of a track: two files, played up to
\* the end, and the stop button.
NextStop ==
    \/ AddTwoSongs \/ DoubleClick \/ ClickStop
    \/ Tick \/ FireTimer \/ Deliver
    \/ BackendLoaded \/ BackendAdvance \/ BackendEndOfMedia

SpecStop == Init /\ [][NextStop]_vars

\* Repeat mode: a playlist of two files, picked together, is played to the
\* end of its tracks while repeat mode is switched on and off.
NextRepeat ==
    \/ AddTwoSongs \/ DoubleClick \/ ToggleRepeat
    \/ Tick \/ FireTimer \/ Deliver
    \/ BackendLoaded \/ BackendAdvance \/ BackendEndOfMedia

SpecRepeat == Init /\ [][NextRepeat]_vars

\* Keeping up with the backend: an audio file is toggled, stopped, skipped
\* and played to its end while the backend's notifications are delivered.
NextSync ==
    \/ ClickPlay \/ ClickStop \/ ClickNext \/ ClickPrev
    \/ AddFirstAudio
    \/ Tick \/ FireTimer \/ Deliver
    \/ BackendLoaded \/ BackendAdvance \/ BackendEndOfMedia

SpecSync == Init /\ [][NextSync]_vars

\* The playlist under a track being played: files are added, dropped and
\* removed and playlist files are loaded while tracks are selected, toggled
\* and skipped.
NextIndex ==
    \/ AddSongs \/ DropFile \/ RemoveSongs \/ LoadLegacyPlaylist
    \/ DoubleClick \/ ClickPlay \/ ClickNext \/ ClickPrev
    \/ Deliver \/ BackendLoaded

SpecIndex == Init /\ [][NextIndex]_vars

\* Removing and replacing entries around the track being played: a playlist
\* of up to three entries, the last of them a station.
NextRemove ==
    \/ AddSongs \/ AddStreamAfterFiles \/ RemoveSongs \/ LoadLegacyPlaylist
    \/ DoubleClick \/ Deliver \/ BackendLoaded

SpecRemove == Init /\ [][NextRemove]_vars

\* Playlist files that do not load: entries are added and removed, and
\* playlist files of every sort are chosen in the dialog.
NextDamaged ==
    \/ AddAnyFile \/ AddCustomStream \/ RemoveSongs
    \/ LoadLegacyPlaylist \/ LoadDamagedPlaylist

SpecDamaged == Init /\ [][NextDamaged]_vars

\* -------------------------------------------------------------- properties
\* The handlers a play/pause request enters through, and those of next/previous.
ToggleOps == {"play_button", "shortcut", "Play", "Pause", "PlayPause"}
NextOps == {"next_song", "Next"}
PrevOps == {"prev_song", "Previous"}

Has(cmds, c) == \E i \in 1..Len(cmds) : cmds[i].c = c

LastOf(seq) == seq[Len(seq)]

\* The current time is less than the debounce window after time t.
InWindowOf(t) == t >= 0 /\ now - t < ToggleWindowMs

\* C1: for every track boundary the advance (_advance_after_end) runs exactly
\* once, even when both the position watchdog and the EndOfMedia status occur
\* for that boundary: no step runs the advance of a boundary a second time.
C1_AdvanceOncePerBoundary == last.adv # "dup"

\* The step is a toggle request: it reached play_pause_song.
ToggleRequested == last'.eff # "-"

\* C2 (as stated): a toggle request (play_pause_song reached) fired less than
\* 220 ms after the previous one has no effect: it issues no backend command.
C2_BurstAfterPreviousRequest ==
    [][(ToggleRequested /\ InWindowOf(req_at)) => last'.cmds = <<>>]_vars

\* C2 (amended): the window runs from the last request that passed the guard.
\* A toggle request fired less than 220 ms after that one issues no backend
\* command and leaves the backend state, the pending notifications, the
\* canonical state, current_song_index and the guard deadline unchanged; a
\* request fired 220 ms or more after it passes the guard, whenever the
\* request before it was fired, and moves the deadline to now + 220 ms.
C2_WindowFromAcceptedRequest ==
    [][ToggleRequested =>
          IF InWindowOf(acc_at)
          THEN /\ last'.eff = "ignored"
               /\ last'.cmds = <<>>
               /\ p_state' = p_state
               /\ notif' = notif
               /\ canonical' = canonical
               /\ current_song_index' = current_song_index
               /\ toggle_guard_until' = toggle_guard_until
          ELSE /\ last'.eff # "ignored"
               /\ toggle_guard_until' = now + ToggleWindowMs]_vars

\* A click on the play button while the player plays, less than 220 ms after
\* an accepted toggle, has been ignored.
C2_IgnoredRequest ==
    /\ last.op = "play_button"
    /\ last.eff = "ignored"
    /\ req_at = now
    /\ acc_at >= 0 /\ acc_at < now /\ now - acc_at < ToggleWindowMs
    /\ p_state = "Playing"
    /\ last.cmds = <<>>

\* C3: a toggle that passes the guard while the backend is Stopped and the
\* playlist is not empty selects the current track (the first if none is
\* selected), loads its source, commands play and pushes Playing, for every
\* origin of the toggle.
C3_StartFromStopped ==
    [][(ToggleRequested /\ last'.eff # "ignored"
        /\ p_state = "Stopped" /\ playlist # <<>>) =>
          LET idx == IF current_song_index = -1 THEN 0 ELSE current_song_index
          IN /\ current_song_index' = idx
             /\ last'.cmds = <<Cmd("setSource", Entry(St, idx).path), Cmd("play", "")>>
             /\ last'.pushed # <<>>
             /\ LastOf(last'.pushed) = "Playing"]_vars

\* C4: a toggle that passes the guard with effective state Playing issues
\* exactly the command pause and pushes Paused; with effective state Paused it
\* issues exactly the command play and pushes Playing: the status forced on
\* the bridge is the one the command leads to.
C4_DecisionMatchesPrediction ==
    /\ last.eff = "Playing" =>
           /\ last.cmds = <<Cmd("pause", "")>>
           /\ last.pushed # <<>>
           /\ LastOf(last.pushed) = "Paused"
           /\ forced_playback_status = "Paused"
    /\ last.eff = "Paused" =>
           /\ last.cmds = <<Cmd("play", "")>>
           /\ last.pushed # <<>>
           /\ LastOf(last.pushed) = "Playing"
           /\ forced_playback_status = "Playing"

\* A toggle has paused a playing track and pushed Paused.
C4_PausedAPlayingTrack ==
    /\ last.eff = "Playing"
    /\ last.cmds = <<Cmd("pause", "")>>
    /\ p_state = "Paused"
    /\ published = "Paused"

\* C5: a toggle request made while the backend is Stopped and the playlist is
\* empty is a no-op for every origin: no backend command, no status pushed to
\* the bridge, current_song_index unchanged.
C5_EmptyPlaylistNoOp ==
    [][(last'.op \in ToggleOps /\ p_state = "Stopped" /\ playlist = <<>>) =>
          /\ last'.cmds = <<>>
          /\ last'.pushed = <<>>
          /\ current_song_index' = current_song_index]_vars

\* C6: the bridge's Play while the player is playing never causes a pause
\* command, and its Pause while the player is paused never causes a play
\* command, also while a state notification is still undelivered.
C6_PlayPauseIdempotent ==
    [][/\ (last'.op = "Play" /\ p_state = "Playing") => ~Has(last'.cmds, "pause")
       /\ (last'.op = "Pause" /\ p_state = "Paused") => ~Has(last'.cmds, "play")]_vars

\* C7: the bridge's Pause while the canonical (last confirmed) state is Paused
\* issues no backend command, pushes no forced status and leaves the canonical
\* state, current_song_index and the toggle guard unchanged.
C7_PauseWhenPausedNoOp ==
    [][(last'.op = "Pause" /\ canonical = "Paused") =>
          /\ last'.cmds = <<>>
          /\ last'.pushed = <<>>
          /\ canonical' = canonical
          /\ current_song_index' = current_song_index
          /\ toggle_guard_until' = toggle_guard_until]_vars

\* C8: a forced status expires: it is set to expire at most 650 ms ahead, and
\* once its timeout has elapsed the PlaybackStatus property equals the
\* backend's state, whether or not a timer or a notification has run.
C8_ForcedStatusExpires ==
    /\ forced_playback_status # None => forced_until <= now + ForceTimeoutMs
    /\ now >= forced_until => PlaybackStatus(St) = BackendStatus(St)

\* A forced Playing has outlived its timeout over a stopped backend, with no
\* command issued, no timer pending and no notification to come.
C8_ExpiredWithoutReconciliation ==
    /\ forced_playback_status = "Playing"
    /\ now >= forced_until
    /\ p_state = "Stopped"
    /\ p_source = None
    /\ timers = <<>>
    /\ notif = <<>>
    /\ PlaybackStatus(St) = "Stopped"

\* C9: with shuffle off, next_song at the last index commands stop (the
\* backend is Stopped), reports the end of the playlist, loads no source and
\* leaves current_song_index at the last index.
C9_NextAtLastIndex ==
    (last.op \in NextOps /\ ~shuffle_mode /\ playlist # <<>>
     /\ last.idx0 = Len(playlist) - 1) =>
        /\ last.cmds = <<Cmd("stop", "")>>
        /\ p_state = "Stopped"
        /\ current_song_index = last.idx0
        /\ status_bar = "End of playlist."

\* Where prev_song lands with shuffle off.
PrevTarget == IF last.idx0 <= 0 THEN 0 ELSE last.idx0 - 1

\* C10 (as stated): with shuffle off, prev_song at index 0 (or with no track
\* selected) sets current_song_index to 0 and replays that track; it never
\* stops playback; from an index i > 0 it moves to i - 1.
C10_PrevClampsAndReplays ==
    (last.op \in PrevOps /\ ~shuffle_mode /\ playlist # <<>>) =>
        /\ current_song_index = PrevTarget
        /\ ~Has(last.cmds, "stop")
        /\ last.idx0 <= 0 =>
               /\ last.cmds = <<Cmd("setSource", Entry(St, 0).path), Cmd("play", "")>>
               /\ p_state = "Playing"

\* C10 (amended): with shuffle off, prev_song at index 0 (or with no track
\* selected) sets current_song_index to 0, and from an index i > 0 to i - 1;
\* it never wraps and never commands stop; it loads and plays the track it
\* lands on if that track's file still exists, and otherwise shows the
\* "File Not Found" warning and issues no backend command.
C10_PrevClampsReplaysExisting ==
    (last.op \in PrevOps /\ ~shuffle_mode /\ playlist # <<>>) =>
        /\ current_song_index = PrevTarget
        /\ ~Has(last.cmds, "stop")
        /\ IF Entry(St, PrevTarget).path \in missing
           THEN last.cmds = <<>> /\ last.box = "File Not Found"
           ELSE /\ last.cmds = <<Cmd("setSource", Entry(St, PrevTarget).path),
                                 Cmd("play", "")>>
                /\ p_state = "Playing"

\* prev_song at the first of two entries has replayed the first entry.
C10_ReplayedFirstOfTwo ==
    /\ last.op \in PrevOps
    /\ ~shuffle_mode
    /\ Len(playlist) = 2
    /\ last.idx0 = 0
    /\ current_song_index = 0
    /\ last.cmds = <<Cmd("setSource", Entry(St, 0).path), Cmd("play", "")>>

\* C11: with shuffle on and more than one playlist entry, next_song and
\* prev_song select an index inside the playlist range and different from
\* the current_song_index held before the call.
C11_ShuffleNeverReselects ==
    (last.op \in (NextOps \cup PrevOps) /\ shuffle_mode /\ Len(playlist) > 1) =>
        /\ current_song_index \in 0..(Len(playlist) - 1)
        /\ current_song_index # last.idx0

\* next_song in shuffle mode has moved from the first of two entries to the
\* second one.
C11_ShuffledToOther ==
    /\ last.op \in NextOps
    /\ shuffle_mode
    /\ Len(playlist) = 2
    /\ last.idx0 = 0
    /\ current_song_index = 1

\* C12: in repeat mode, reaching the end of the track seeks the backend to
\* position 0 and resumes the same track: current_song_index is unchanged,
\* next_song does not run (no stop, no new source) and the end-of-track guard
\* is cleared.
C12_RepeatRestartsSameTrack ==
    [][(last'.adv # "none" /\ repeat_mode) =>
          /\ last'.cmds = <<Cmd("setPosition", ""), Cmd("play", "")>>
          /\ current_song_index' = current_song_index
          /\ p_source' = p_source
          /\ p_pos' = 0
          /\ p_state' = "Playing"
          /\ status_bar' = status_bar
          /\ ~end_guard']_vars

\* The first advance of a boundary has restarted the track in repeat mode.
C12_RestartedInRepeatMode ==
    /\ last.adv = "first"
    /\ repeat_mode
    /\ last.cmds = <<Cmd("setPosition", ""), Cmd("play", "")>>
    /\ p_state = "Playing"
    /\ p_pos = 0
    /\ ~end_guard

\* C13: with an empty playlist next_song and prev_song are no-ops: no
\* backend command is issued, and current_song_index, the end-of-track guard
\* and the bridge's status (forced, published and backend state) are unchanged.
C13_EmptyPlaylistNavNoOp ==
    [][(last'.op \in (NextOps \cup PrevOps) /\ playlist = <<>>) =>
          /\ last'.cmds = <<>>
          /\ last'.pushed = <<>>
          /\ current_song_index' = current_song_index
          /\ end_guard' = end_guard
          /\ forced_playback_status' = forced_playback_status
          /\ forced_until' = forced_until
          /\ published' = published
          /\ p_state' = p_state
          /\ status_bar' = status_bar]_vars

\* Next was called on a playlist emptied after a track had been loaded.
C13_NextOnEmptiedPlaylist ==
    /\ last.op \in NextOps
    /\ playlist = <<>>
    /\ p_source # None
    /\ status_bar = "Playback stopped."
    /\ last.cmds = <<>>

\* C14: when play_song finds that the selected entry's file no longer exists
\* (called directly or through next_song / prev_song), the error is reported
\* and playback is left stopped: the backend is not playing after the call.
C14_MissingFileLeavesStopped ==
    (last.box = "File Not Found" /\ last.op # "add_songs") =>
        p_state # "Playing"

\* C15: when the backend reports a playback error (an error with a
\* description), the error is reported in a message box, the backend is
\* commanded to stop, and the playlist and current_song_index are left as
\* they were; handling an error never changes the playlist or the index.
C15_ErrorReportedAndStopped ==
    [][last'.op = "error" =>
          /\ playlist' = playlist
          /\ current_song_index' = current_song_index
          /\ Head(notif).sv # "" =>
                 /\ last'.box = "Playback Error"
                 /\ last'.cmds = <<Cmd("stop", "")>>
                 /\ p_state' = "Stopped"
                 /\ ~stop_button'
                 /\ status_bar' = "Playback stopped."]_vars

\* An error of a playing track has been reported and playback stopped, the
\* selection still on that track.
C15_PlayingTrackFailed ==
    /\ last.op = "error"
    /\ last.box = "Playback Error"
    /\ last.cmds = <<Cmd("stop", "")>>
    /\ p_state = "Stopped"
    /\ current_song_index = 0
    /\ Len(playlist) = 2

\* The part of the state that core playback consists of, with the commands
\* the step issued and the message box it showed.
CoreOf(s) ==
    [playlist |-> s.playlist, current_song_index |-> s.current_song_index,
     shuffle_mode |-> s.shuffle_mode, repeat_mode |-> s.repeat_mode,
     duration_ms |-> s.duration_ms, end_guard |-> s.end_guard,
     toggle_guard_until |-> s.toggle_guard_until,
     last_playing |-> s.last_playing, mpris_last_playing |-> s.mpris_last_playing,
     status_bar |-> s.status_bar, play_button |-> s.play_button,
     stop_button |-> s.stop_button, timers |-> s.timers,
     p_state |-> s.p_state, p_source |-> s.p_source, p_pos |-> s.p_pos,
     p_status |-> s.p_status, notif |-> s.notif,
     cmds |-> s.last.cmds, box |-> s.last.box]

\* The same state of core playback in a run whose bridge failed to start.
WithoutBridge(s) ==
    [s EXCEPT !.mpris = FALSE, !.forced_playback_status = None,
              !.forced_until = 0, !.published = None]

\* The states one operation of the user, one due timer or the delivery of
\* one notification leads to from state s, by the name of the operation.
CoreOps ==
    {"play_button", "shortcut", "stop_song", "next_song", "prev_song",
     "play_selected_song", "timer", "notification"}

CoreSteps(s, op) ==
    CASE op = "play_button" -> {play_pause_song(s, FALSE)}
      [] op = "shortcut" -> {toggle_play_pause_shortcut(s)}
      [] op = "stop_song" -> {stop_song(s)}
      [] op = "next_song" -> {next_song(s, 0)}
      [] op = "prev_song" -> {prev_song(s, 0)}
      [] op = "play_selected_song" ->
             {play_selected_song(s, row) : row \in 0..(Len(s.playlist) - 1)}
      [] op = "timer" ->
             {TimerCallback([s EXCEPT !.timers = RemoveAt(@, i)], s.timers[i], 0) :
                  i \in 1..Len(s.timers)}
      [] op = "notification" ->
             IF s.notif = <<>> THEN {}
             ELSE {Dispatch([s EXCEPT !.notif = Tail(@)], Head(s.notif), 0)}

\* The operation of CoreOps that a step recorded as op is an instance of
\* ("none": a step of the clock or of the backend, which the app takes no
\* part in, or the file dialog, which does not reach the bridge).
CoreOpOf(op) ==
    CASE op \in {"play_button", "shortcut", "stop_song", "next_song", "prev_song",
                 "play_selected_song"} -> op
      [] op \in {"notify", "resync", "advance"} -> "timer"
      [] op \in {"state", "pos", "dur", "status", "error"} -> "notification"
      [] OTHER -> "none"

C17_ChangeIsNotified ==
    [][/\ canonical' # canonical => "PlaybackStatus" \in last'.sig
       /\ Metadata(St)' # Metadata(St) => "Metadata" \in last'.sig
       /\ Volume(St)' # Volume(St) => "Volume" \in last'.sig]_vars

\* A Metadata value describes the source src: it is empty, or its URL (and
\* with it its title) is that of src and its length, when present, is the
\* duration the backend reports for src.
DescribesSource(md, src) ==
    \/ md = NoMetadata
    \/ /\ md.url = src
       /\ md.length \in {0, Duration(src) * 1000}

\* C18: the Metadata the bridge returns when read, and every Metadata it
\* publishes with notify_metadata, describes the entry whose source the
\* backend has loaded at that moment, with that source's own duration.
C18_MetadataOfLoadedSource ==
    /\ DescribesSource(Metadata(St), p_source)
    /\ \A i \in 1..Len(last.meta) :
           DescribesSource(last.meta[i].md, last.meta[i].src)

\* v clamped to [0, 1], in thousandths.
Clamp01(v) == IF v < 0 THEN 0 ELSE IF v > 1000 THEN 1000 ELSE v

\* C19 (as stated): Volume always reads in [0, 1], and after v is written to
\* it the effective volume is v clamped to [0, 1] and the slider is at the
\* clamped value times 100, truncated.
C19_WriteGivesClampedVolume ==
    /\ Volume(St) \in 0..1000
    /\ last.op = "Volume" =>
           /\ Volume(St) = Clamp01(last.val)
           /\ volume_slider = (Clamp01(last.val) * 100) \div 1000

\* C19 (amended): Volume always reads in [0, 1], and after v is written to it
\* the slider is at a whole percent in 0..100, the effective volume is the
\* slider's value over 100, and that is never above v clamped to [0, 1] and
\* at most 0.01 below it.
C19_WriteGivesWholePercentBelow ==
    /\ Volume(St) \in 0..1000
    /\ last.op = "Volume" =>
           /\ volume_slider \in 0..100
           /\ Volume(St) = volume_slider * 10
           /\ Clamp01(last.val) - Volume(St) \in 0..10

\* 0.555 was written to Volume: the slider is at 55 and Volume reads 0.55.
C19_WroteBetweenPercents ==
    /\ last.op = "Volume"
    /\ last.val = 555
    /\ volume_slider = 55
    /\ Volume(St) = 550
    /\ "Volume" \in last.sig

\* C20: in every reachable state the PlaybackStatus property is one of
\* Playing, Paused, Stopped; and a call of force_playback_status with any
\* other value leaves the override (the forced status and its expiry) as it was.
C20_StatusIsOneOfThree ==
    /\ [](PlaybackStatus(St) \in {"Playing", "Paused", "Stopped"})
    /\ [][(last'.op = "force_playback_status"
              /\ last'.arg \notin {"Playing", "Paused", "Stopped"})
            => /\ forced_playback_status' = forced_playback_status
               /\ forced_until' = forced_until
               /\ published' = published]_vars

\* force_playback_status was called with "Buffering" while a forced Playing
\* was in effect, and Playing is still what the bridge reports.
C20_InvalidStatusIgnored ==
    /\ last.op = "force_playback_status"
    /\ last.arg = "Buffering"
    /\ forced_playback_status = "Playing"
    /\ now < forced_until
    /\ p_state # "Playing"
    /\ PlaybackStatus(St) = "Playing"

\* The ordered (path, type) pairs of a playlist.
PathTypes(list) == [i \in 1..Len(list) |-> <<list[i].path, list[i].type>>]

\* C21: when the file written by save_playlist is loaded with load_playlist,
\* the playlist has as many entries as the playlist that was saved and the
\* same (path, type) pairs in the same order.
C21_SaveLoadRoundTrip ==
    (last.op = "load_playlist" /\ last.arg = "saved")
        => /\ last.box = "Playlist Loaded"
           /\ Len(playlist) = Len(playlist_file.src)
           /\ PathTypes(playlist) = PathTypes(playlist_file.src)

\* A saved playlist of two entries was loaded back over a playlist that was
\* no longer the one saved.
C21_LoadedSavedPair ==
    /\ last.op = "load_playlist"
    /\ last.arg = "saved"
    /\ Len(playlist) = 2
    /\ playlist[1].type = "stream"
    /\ playlist[2].path = "a.mp3"

\* The entries of the file the last step loaded.
LoadedData == json_load(last.doc)

MediaKinds == {"audio", "video", "stream"}

\* C23: whatever add_songs, drop, add_custom_stream, load_playlist and
\* remove_songs have done, every entry of the playlist is of a kind in
\* {audio, video, stream}, so that play_song, on whichever row it is started,
\* never loads an entry of another kind.
C23_EveryEntryOfKnownKind ==
    /\ \A i \in 1..Len(playlist) : playlist[i].type \in MediaKinds
    /\ \A row \in 0..(Len(playlist) - 1) :
           Has(play_selected_song(Begin(St, "play_selected_song"), row).last.cmds,
               "setSource")
               => playlist[row + 1].type \in MediaKinds

\* C24: the lyrics view shows the result of a fetch only if no set_media or
\* clear call has happened since that fetch was started; the job counter
\* never decreases and grows with every set_media and clear; and _on_ready
\* discards exactly the results whose job id is not the current counter,
\* in whatever order the workers' completions are delivered.
C24_StaleLyricsDiscarded ==
    /\ [](lyrics.view.kind \in {"lyrics", "not found"}
             => lyrics.view.call = lyrics.calls)
    /\ [][/\ lyrics'.job_id >= lyrics.job_id
          /\ lyrics'.calls > lyrics.calls => lyrics'.job_id > lyrics.job_id
          /\ last'.op = "on_ready" =>
                \A job \in lyrics.jobs \ lyrics'.jobs :
                    /\ last'.ready = "discarded" <=> job.id # lyrics.job_id
                    /\ last'.ready = "discarded" => lyrics'.view = lyrics.view]_vars

\* Two fetches were in flight; the later one completed first and was shown,
\* then the earlier one completed and was discarded.
C24_LateResultDiscarded ==
    /\ last.op = "on_ready"
    /\ last.ready = "discarded"
    /\ lyrics.view.kind = "lyrics"
    /\ lyrics.jobs = {}
    /\ lyrics.calls >= 2

\* C25: a toggle request that the debounce guard ignores has no effect at
\* all, through whichever entry point it came: no backend command, no status
\* forced on the bridge, no bridge notification, no write to _last_playing or
\* _mpris_last_playing, and the guard deadline as it was.
C25_IgnoredToggleHasNoEffect ==
    [][last'.eff = "ignored"
         => /\ last'.cmds = <<>>
            /\ last'.pushed = <<>>
            /\ last'.sig = {}
            /\ forced_playback_status' = forced_playback_status
            /\ forced_until' = forced_until
            /\ last_playing' = last_playing
            /\ mpris_last_playing' = mpris_last_playing
            /\ toggle_guard_until' = toggle_guard_until]_vars

\* C26: _last_playing and _mpris_last_playing change only in the step that
\* handles a state-change notification of the backend; no toggle, shortcut,
\* bridge command, forced status or timer changes them.
C26_FlagsOnlyFromNotifications ==
    [][(last_playing' # last_playing \/ mpris_last_playing' # mpris_last_playing)
         => last'.op = "state"]_vars

\* What the decision of play_pause_song reads: the backend's queried state,
\* the flag set by the last handled state-change notification, and whether
\* the caller passed prefer_last_state (only the shortcut does).
FlagState == IF mpris_last_playing THEN "Playing" ELSE "Paused"
BackendClear == p_state \in {"Playing", "Paused"}
PrefersLast == last'.op = "shortcut"
ToggleDecided == last'.op \in ToggleOps /\ last'.eff \notin {"-", "ignored"}

\* C27 (as stated): the state a toggle acts on is the last confirmed flag
\* whenever the backend's queried state is neither Playing nor Paused or
\* prefer_last_state is set, and the backend's queried state otherwise.
C27_FlagOnAmbiguousOrPreferred ==
    [][ToggleDecided
         => last'.eff = IF PrefersLast \/ ~BackendClear THEN FlagState ELSE p_state]_vars

\* C27 (amended): the state a toggle acts on is the last confirmed flag only
\* when prefer_last_state is set and the backend's queried state is neither
\* Playing nor Paused; in every other combination it is the backend's state.
C27_FlagOnAmbiguousAndPreferred ==
    [][ToggleDecided
         => last'.eff = IF PrefersLast /\ ~BackendClear THEN FlagState ELSE p_state]_vars

\* The shortcut was pressed after the backend had stopped and before the
\* notification of it was handled, so the flag still said playing: the toggle
\* acted on Playing and commanded pause.
C27_StoppedBackendFlagPlaying ==
    /\ last.op = "shortcut"
    /\ last.eff = "Playing"
    /\ mpris_last_playing
    /\ Has(last.cmds, "pause")
    /\ notif # <<>> /\ notif[1].k = "state" /\ notif[1].sv = "Stopped"

\* Positions of the events of the step just taken: status pushes to the
\* bridge, backend commands, timers scheduled.
EventsAt(kind) == {i \in 1..Len(last.ev) : last.ev[i] = kind}

\* C28: in every toggle that commands the backend, a predicted status was
\* pushed to the bridge before the first command, and a callback was scheduled
\* after the last command; the callback that re-publishes the playback status
\* is then pending.
C28_PushCommandSchedule ==
    (last.op \in ToggleOps /\ last.cmds # <<>>)
      => /\ \E i \in EventsAt("push") : \A j \in EventsAt("cmd") : i < j
         /\ \E k \in EventsAt("timer") : \A j \in EventsAt("cmd") : j < k
         /\ \E t \in 1..Len(timers) : timers[t].k = "notify" /\ timers[t].due > now

\* A click on the play button loaded and started a stream from the stopped
\* player: one push, the two commands, the push of play_song, two timers.
C28_StartedStreamInOrder ==
    /\ last.op = "play_button"
    /\ last.eff = "Stopped"
    /\ Has(last.cmds, "setSource") /\ Has(last.cmds, "play")
    /\ last.ev = <<"push", "publish", "cmd", "cmd", "push", "publish", "timer", "timer">>

\* C29: when the callback scheduled by a toggle to re-publish the playback
\* status has run, the PlaybackStatus published to the bridge is the state the
\* backend reports at that moment.
C29_ReconciliationPublishesBackendState ==
    last.op = "notify" => published = BackendStatus(St)

\* C30: the handler of a state-change notification clears the forced status
\* before it publishes, and publishes the backend's state; from then on, in
\* every step that forces no status, the PlaybackStatus read is the backend's.
C30_ClearedBeforePublished ==
    /\ [](last.op = "state"
            => /\ EventsAt("publish") # {}
               /\ \A j \in EventsAt("publish") :
                      \E i \in EventsAt("clear") \cup EventsAt("clear_none") : i < j
               /\ forced_playback_status = None
               /\ published = BackendStatus(St))
    /\ [][(forced_playback_status = None /\ last'.pushed = <<>>)
            => /\ forced_playback_status' = None
               /\ ("PlaybackStatus" \in last'.sig => published' = BackendStatus(St)')]_vars

\* The notification of Playing was handled while a forced status was in
\* effect and the backend had been paused since: the forced status was
\* dropped and the backend's state, Paused, published.
C30_DroppedForcedStatus ==
    /\ last.op = "state"
    /\ last.ev = <<"clear", "publish">>
    /\ mpris_last_playing
    /\ forced_playback_status = None
    /\ p_state = "Paused"
    /\ published = "Paused"

\* A callback scheduled by a toggle ran after a later toggle had passed the
\* guard: it was due no later than that toggle was accepted.
LateCallback == last.op \in {"notify", "resync"} /\ last.due <= acc_at

\* C31: a callback of an earlier toggle that runs after a later toggle was
\* accepted acts on the state current when it runs: the delayed notify
\* publishes what the PlaybackStatus property reads then, the delayed re-sync
\* forces and publishes the state the backend reports then; whatever it
\* publishes that is not the backend's current state is the forced status in
\* effect, never an older state.
C31_LateCallbackUsesCurrentState ==
    LateCallback
      => /\ last.op = "notify" => published = PlaybackStatus(St)
         /\ last.op = "resync"
              => /\ last.pushed = <<BackendStatus(St)>>
                 /\ forced_playback_status = BackendStatus(St)
                 /\ published = BackendStatus(St)
         /\ published # BackendStatus(St)
              => (forced_playback_status = published /\ now < forced_until)

\* C31 (as stated): moreover, a late callback that replaces the status the
\* later toggle pushed (still in force and on display) never replaces it by
\* the state the backend was in before the later toggle.
C31_LateCallbackNeverRestores ==
    [][(/\ last'.op \in {"notify", "resync"} /\ last'.due <= acc_at
        /\ forced_playback_status = published /\ now < forced_until
        /\ forced_until \in {acc_at + ForceTimeoutMs, acc_at + BridgeForceTimeoutMs}
        /\ published' # published)
          => published' # acc_from]_vars

\* The re-sync of the shortcut ran after a later toggle had paused the player,
\* before the notification of Paused was handled: it forced Paused.
C31_LateResyncAfterPause ==
    /\ LateCallback
    /\ last.op = "resync"
    /\ p_state = "Paused"
    /\ last_playing
    /\ published = "Paused"

\* C32 (as stated): the guard deadline never decreases; a toggle request
\* before the deadline leaves it unchanged and commands nothing; a request at
\* or after the deadline sets it to the time of the request plus 220 ms; and
\* the deadline moves only in a step that issues a backend command.
C32_GuardMovesOnlyWithCommand ==
    [][/\ toggle_guard_until' >= toggle_guard_until
       /\ (ToggleRequested /\ now < toggle_guard_until)
            => (toggle_guard_until' = toggle_guard_until /\ last'.cmds = <<>>)
       /\ (ToggleRequested /\ now >= toggle_guard_until)
            => toggle_guard_until' = now + ToggleWindowMs
       /\ toggle_guard_until' # toggle_guard_until => last'.cmds # <<>>]_vars

\* C32 (amended): the first three parts, and the deadline moves only in a
\* step in which a toggle request passed the guard, whether or not that
\* toggle then issues a backend command.
C32_GuardMovesWithAcceptedToggle ==
    [][/\ toggle_guard_until' >= toggle_guard_until
       /\ (ToggleRequested /\ now < toggle_guard_until)
            => (toggle_guard_until' = toggle_guard_until /\ last'.cmds = <<>>)
       /\ (ToggleRequested /\ now >= toggle_guard_until)
            => toggle_guard_until' = now + ToggleWindowMs
       /\ toggle_guard_until' # toggle_guard_until
            => (ToggleRequested /\ last'.eff # "ignored" /\ acc_at' = now)]_vars

\* The bridge's PlayPause passed the guard and armed it, and commanded
\* nothing: the playlist was empty.
C32_ArmedWithoutCommand ==
    /\ last.op = "PlayPause"
    /\ last.eff = "Stopped"
    /\ playlist = <<>>
    /\ last.cmds = <<>>
    /\ acc_at = now
    /\ toggle_guard_until = now + ToggleWindowMs

\* The steps at which the end-of-track guard is written besides the watchdog:
\* play_song has loaded a source, an explicit stop, a duration report, the
\* report of the loaded / buffered status.
LoadedSource == Has(last'.cmds, "setSource")
ExplicitStop == last'.op \in {"stop_song", "Stop"}
DurationReported == last'.op = "dur"
LoadedReported ==
    last'.op = "status" /\ Head(notif).sv \in {"LoadedMedia", "BufferedMedia"}

\* C33: the end-of-track guard is cleared when play_song loads a
\* new source, when stop_song performs an explicit stop, and when the backend
\* reports the duration or the loaded / buffered status.
C33_GuardClearedAtResetPoints ==
    [][(LoadedSource \/ ExplicitStop \/ DurationReported \/ LoadedReported)
         => ~end_guard']_vars

\* The watchdog of update_slider has set the guard and scheduled an advance.
WatchdogFired == last'.op = "pos" /\ ~end_guard /\ end_guard'

\* C34: the watchdog schedules an advance only when the duration is known
\* (not 0), is the duration of the source loaded in the backend, and the
\* reported position is within 1000 ms of it.
C34_WatchdogUsesDurationOfLoadedSource ==
    [][WatchdogFired
         => /\ duration_ms > 0
            /\ duration_ms = Duration(p_source)
            /\ Head(notif).nv >= duration_ms - EndWindowMs]_vars

\* stop_song has run since play_song last loaded a source (play_song enables
\* the stop button, stop_song disables it).
StoppedSinceLoad == p_source # None /\ ~stop_button

\* C35: after a stop, and until a source is loaded again, a position update
\* schedules no advance, and no advance (from EndOfMedia or from a callback
\* scheduled before the stop) commands the backend to load or play.
C35_NoAdvanceAfterStop ==
    [][StoppedSinceLoad
         => /\ last'.op = "pos" => (timers' = timers /\ end_guard' = end_guard)
            /\ last'.adv # "none"
                 => (~Has(last'.cmds, "setSource") /\ ~Has(last'.cmds, "play"))]_vars

\* A state-change notification of the backend is still to be delivered.
StateChangePending == \E i \in 1..Len(notif) : notif[i].k = "state"

\* C36: whenever no state-change notification of the backend is pending, the
\* last-observed flag _mpris_last_playing is true exactly when the backend
\* is Playing, and the play button reads "Pause" exactly when the backend is
\* Playing.
C36_SettledViewMatchesBackend ==
    ~StateChangePending
      => /\ mpris_last_playing <=> p_state = "Playing"
         /\ play_button = "Pause" <=> p_state = "Playing"

\* C36 witness: a track was stopped from the window and the notification of
\* the stop has just been delivered, with none left: the flag and the button
\* show the stopped backend.
C36_SettledAfterStop ==
    /\ last.op = "state"
    /\ canonical = "Stopped"
    /\ ~StateChangePending
    /\ p_state = "Stopped"
    /\ p_source # None
    /\ ~stop_button
    /\ ~mpris_last_playing
    /\ play_button = "Play"

\* C37: current_song_index is -1 or an index of the playlist.
C37_IndexValidOrNone ==
    current_song_index = -1
      \/ (0 <= current_song_index /\ current_song_index < Len(playlist))

\* A track is loaded in the backend and playback has not been stopped.
TrackLoaded == p_source # None /\ p_state # "Stopped"

\* C38: while a track is loaded and playback has not been stopped,
\* current_song_index is the index of the playlist entry whose source is
\* loaded.
C38_IndexIsLoadedEntry ==
    TrackLoaded
      => /\ 0 <= current_song_index /\ current_song_index < Len(playlist)
         /\ playlist[current_song_index + 1].path = p_source

\* C38: removing the entry whose source is loaded stops playback.
C38_RemovingLoadedEntryStops ==
    [][(/\ last'.op = "remove_songs"
        /\ TrackLoaded
        /\ \E i \in 1..Len(playlist) :
               playlist[i].path = p_source /\ playlist' = RemoveAt(playlist, i))
         => p_state' = "Stopped"]_vars

\* The load_playlist call of this step ended in an error or a rejection.
LoadRejected ==
    last'.op = "load_playlist" /\ last'.box \in {"Error Loading Playlist", "Invalid File"}

\* C39: a load_playlist call that ends in an error or a rejection leaves the
\* playlist and current_song_index as they were.
C39_FailedLoadChangesNothing ==
    [][LoadRejected
         => playlist' = playlist /\ current_song_index' = current_song_index]_vars


====
